---- MODULE Spec2Model ----
(***************************************************************************)
(* go-uploader: the chunk ingestion and merge engine.                      *)
(*                                                                         *)
(* Strings (file identifiers, digests, error texts) are sequences of       *)
(* one-character strings so that SanitizeFileID and the substring search   *)
(* of IsRetryableError are computed as the Go code computes them.  The     *)
(* fixed fragment of an error format (Chinese text in the source) is       *)
(* written as a single element, an upper-case tag such as                  *)
(* "E_CHUNK_MISSING: ": like the original text it holds nothing a          *)
(* transient-failure signature can match.                                  *)
(***************************************************************************)
EXTENDS Naturals, Integers, Sequences, FiniteSets, TLC

(***************************************************************************)
(* Bounds of the model.                                                    *)
(***************************************************************************)
MaxChunks == 2          \* chunk indices 0..MaxChunks-1, total_chunks 0..MaxChunks
MaxFaults == 1          \* I/O faults the environment injects in one behaviour
MaxRetriesBound == 2    \* RetryWithBackoff in isolation: MaxRetries in 0..MaxRetriesBound

\* SanitizeFileID keeps this many characters of an identifier
ReadableLimit == 50

\* an identifier of exactly ReadableLimit characters
LongPrefix == [k \in 1..ReadableLimit |-> "a"]

(***************************************************************************)
(* crypto/md5 followed by hex.EncodeToString, tabulated (real digests) for *)
(* every string the model hashes: the file identifiers and every content   *)
(* over the payload alphabet.                                              *)
(***************************************************************************)
MD5Table ==
    (<<"f">> :>
        <<"8","f","a","1","4","c","d","d","7","5","4","f","9","1","c","c","6","5","5","4","c","9","e","7","1","9","2","9","c","c","e","7">>)
    @@ (<<"f","_","8","f","a","1","4","c","d","d">> :>
        <<"0","9","6","2","2","7","4","0","8","4","9","0","9","4","7","6","6","9","a","9","5","3","b","9","5","3","3","7","2","4","4","5">>)
    @@ (<<>> :>
        <<"d","4","1","d","8","c","d","9","8","f","0","0","b","2","0","4","e","9","8","0","0","9","9","8","e","c","f","8","4","2","7","e">>)
    @@ (<<"A">> :>
        <<"7","f","c","5","6","2","7","0","e","7","a","7","0","f","a","8","1","a","5","9","3","5","b","7","2","e","a","c","b","e","2","9">>)
    @@ (<<"B">> :>
        <<"9","d","5","e","d","6","7","8","f","e","5","7","b","c","c","a","6","1","0","1","4","0","9","5","7","a","f","a","b","5","7","1">>)
    @@ (<<"A","A">> :>
        <<"3","b","9","8","e","2","d","f","f","c","6","c","b","0","6","a","8","9","d","c","b","0","d","5","c","6","0","a","0","2","0","6">>)
    @@ (<<"A","B">> :>
        <<"b","8","6","f","c","6","b","0","5","1","f","6","3","d","7","3","d","e","2","6","2","d","4","c","3","4","e","3","a","0","a","9">>)
    @@ (<<"B","A">> :>
        <<"5","f","c","8","1","0","c","f","6","2","6","0","1","d","f","8","4","b","7","9","2","3","b","9","9","6","4","c","5","3","e","6">>)
    @@ (<<"B","B">> :>
        <<"9","d","3","d","9","0","4","8","d","b","1","6","a","7","e","e","e","5","3","9","e","9","3","e","3","6","1","8","c","b","e","7">>)
    @@ (<<"A","A","A">> :>
        <<"e","1","f","a","f","f","b","3","e","6","1","4","e","6","c","2","f","b","a","7","4","2","9","6","9","6","2","3","8","6","b","7">>)
    @@ (<<"A","A","B">> :>
        <<"e","9","3","4","2","0","2","c","8","7","6","b","0","e","a","e","9","9","d","c","9","9","4","a","8","d","6","1","a","8","6","e">>)
    @@ (<<"A","B","A">> :>
        <<"3","8","7","4","1","e","a","2","d","7","9","5","b","2","d","c","a","c","1","7","d","c","d","e","7","d","d","7","f","8","6","3">>)
    @@ (<<"A","B","B">> :>
        <<"8","c","0","d","3","9","8","7","4","f","7","2","8","4","3","4","9","b","7","a","1","b","a","8","e","5","0","6","3","e","8","4">>)
    @@ (<<"B","A","A">> :>
        <<"c","d","2","8","0","a","8","5","e","f","3","f","b","6","a","6","c","a","1","1","a","5","0","7","c","3","8","e","5","3","c","6">>)
    @@ (<<"B","A","B">> :>
        <<"9","6","c","1","1","9","e","e","8","9","e","0","b","2","3","9","4","0","7","2","4","4","b","5","1","e","3","8","f","a","6","1">>)
    @@ (<<"B","B","A">> :>
        <<"8","b","0","7","2","d","f","b","0","7","1","a","9","b","a","6","a","6","a","d","f","b","b","a","6","5","7","c","5","7","b","2">>)
    @@ (<<"B","B","B">> :>
        <<"2","b","b","2","2","5","f","0","b","a","9","a","5","8","9","3","0","7","5","7","a","8","6","8","e","d","5","7","d","9","a","3">>)
    @@ (<<"A","A","A","A">> :>
        <<"0","9","8","8","9","0","d","d","e","0","6","9","e","9","a","b","a","d","6","3","f","1","9","a","0","d","9","e","1","f","3","2">>)
    @@ (<<"A","A","A","B">> :>
        <<"7","d","5","7","8","b","b","5","6","4","c","5","1","1","c","a","3","0","1","f","5","5","8","5","2","8","b","d","e","6","4","4">>)
    @@ (<<"A","A","B","A">> :>
        <<"d","b","c","a","b","0","9","a","0","2","5","2","c","d","f","a","1","9","9","6","d","6","7","4","b","3","3","4","d","1","1","2">>)
    @@ (<<"A","A","B","B">> :>
        <<"4","2","7","6","d","5","0","f","0","5","d","2","c","a","c","4","c","9","8","c","1","7","3","3","7","a","c","3","0","c","9","9">>)
    @@ (<<"A","B","A","A">> :>
        <<"c","5","3","b","3","a","4","e","8","c","c","8","2","5","2","b","a","6","8","8","f","b","d","4","5","2","0","2","5","d","5","7">>)
    @@ (<<"A","B","A","B">> :>
        <<"b","f","e","f","5","b","c","d","a","b","1","9","1","4","7","d","b","f","b","b","6","8","1","1","2","d","a","1","7","0","4","4">>)
    @@ (<<"A","B","B","A">> :>
        <<"d","e","8","8","b","1","d","1","a","b","f","6","9","a","8","5","3","7","a","e","d","2","3","f","7","f","6","2","a","8","f","0">>)
    @@ (<<"A","B","B","B">> :>
        <<"0","4","e","2","d","4","c","1","8","6","5","4","8","9","2","3","6","1","3","7","9","9","d","8","5","c","0","d","4","6","1","9">>)
    @@ (<<"B","A","A","A">> :>
        <<"c","3","8","0","f","a","9","7","f","5","7","2","a","8","c","f","9","1","4","e","9","d","3","2","5","8","d","9","0","4","5","1">>)
    @@ (<<"B","A","A","B">> :>
        <<"f","9","f","8","c","c","d","3","c","2","1","2","f","c","1","a","1","2","c","4","3","d","1","0","0","d","c","4","1","c","7","3">>)
    @@ (<<"B","A","B","A">> :>
        <<"8","d","2","b","b","b","d","9","9","9","7","9","3","7","0","d","0","c","4","5","f","5","2","4","6","f","d","c","e","5","1","0">>)
    @@ (<<"B","A","B","B">> :>
        <<"c","3","e","5","f","c","e","d","4","3","2","5","b","b","e","5","5","0","2","5","3","4","0","3","0","1","b","0","3","c","9","3">>)
    @@ (<<"B","B","A","A">> :>
        <<"6","2","9","f","7","a","0","c","3","a","e","9","f","7","9","a","4","5","4","8","d","3","d","5","d","9","f","5","6","8","3","6">>)
    @@ (<<"B","B","A","B">> :>
        <<"1","3","b","4","6","b","0","8","f","5","d","c","4","3","f","a","8","7","8","d","2","3","e","4","2","9","f","b","4","8","0","5">>)
    @@ (<<"B","B","B","A">> :>
        <<"e","a","c","7","8","6","3","1","b","0","3","b","d","a","8","a","c","b","3","4","d","7","b","e","d","5","f","7","7","e","c","9">>)
    @@ (<<"B","B","B","B">> :>
        <<"f","5","0","8","8","1","c","e","d","3","4","c","7","d","9","e","6","b","c","e","1","0","0","b","f","3","3","d","e","c","6","0">>)
    @@ (<<"a","/","b">> :>
        <<"a","7","e","8","6","1","3","6","5","4","3","b","0","1","9","d","7","2","4","6","8","c","e","e","b","f","7","1","f","b","8","e">>)
    @@ (<<"a","\\","b">> :>
        <<"2","b","2","8","f","4","6","e","6","4","b","4","e","8","4","8","1","4","a","a","8","d","c","2","2","a","b","1","c","3","6","d">>)
    @@ (<<"a","_","b">> :>
        <<"d","b","f","0","8","e","0","0","b","0","1","f","d","5","8","a","4","a","5","9","6","7","7","5","3","b","4","3","7","8","4","f">>)
    @@ (<<"a","/","a","\\","a","_","a","_","a","/","a","_","a","/","a","\\","a","\\","a","/","a","_","a">> :>
        <<"4","9","a","5","9","b","a","e","2","4","e","6","3","9","3","d","1","0","6","a","2","9","4","7","4","2","b","8","9","1","2","c">>)
    @@ (<<"a","/","a","\\","a","_","a","_","a","\\","a","\\","a","_","a","\\","a","_","a","\\","a","\\","a">> :>
        <<"4","9","a","5","9","b","a","e","8","e","d","c","9","c","5","5","4","2","4","8","a","a","d","5","b","c","f","6","e","7","2","4">>)
    @@ (<<"d">> :>
        <<"8","2","7","7","e","0","9","1","0","d","7","5","0","1","9","5","b","4","4","8","7","9","7","6","1","6","e","0","9","1","a","d">>)
    @@ (<<"d","/","a">> :>
        <<"1","e","5","8","d","1","f","f","8","d","9","2","7","7","e","c","7","1","6","1","b","e","9","e","8","1","2","f","6","5","8","8">>)
    @@ (<<"d","/","b">> :>
        <<"1","c","9","d","6","f","9","6","b","4","a","f","5","9","5","4","c","b","b","4","3","b","7","e","d","8","6","8","7","5","8","f">>)
    @@ (LongPrefix :>
        <<"6","e","b","6","a","0","3","0","b","c","c","e","1","6","6","5","3","4","b","9","5","b","c","2","a","b","4","5","d","9","c","f">>)
    @@ (LongPrefix \o <<"1">> :>
        <<"6","0","1","6","f","8","1","c","2","c","7","c","5","7","f","b","5","8","4","4","7","8","2","f","e","6","3","0","f","c","9","3">>)
    @@ (LongPrefix \o <<"2">> :>
        <<"f","7","4","a","2","1","f","f","1","8","2","b","9","7","0","d","b","c","a","c","f","9","e","6","3","f","5","a","2","f","2","5">>)
    @@ (LongPrefix \o <<"3","0","1","7","4">> :>
        <<"1","4","b","5","2","3","d","5","5","9","a","a","b","3","8","0","e","c","3","e","6","1","3","7","f","f","5","0","6","7","d","d">>)
    @@ (LongPrefix \o <<"7","3","8","4","6">> :>
        <<"1","4","b","5","2","3","d","5","e","d","9","2","c","2","f","7","4","c","f","7","0","6","7","1","3","6","8","b","c","2","1","d">>)

MD5Hex(s) == MD5Table[s]

BytesMD5(data) == MD5Hex(data)

FileMD5(content) == MD5Hex(content)

HashPrefixLen == 8

ReplaceAll(s, old, new) == [k \in 1..Len(s) |-> IF s[k] = old THEN new ELSE s[k]]

RECURSIVE ReplaceAllDotDot(_)
ReplaceAllDotDot(s) ==
    IF Len(s) < 2 THEN s
    ELSE IF s[1] = "." /\ s[2] = "."
         THEN <<"_">> \o ReplaceAllDotDot(SubSeq(s, 3, Len(s)))
         ELSE <<s[1]>> \o ReplaceAllDotDot(Tail(s))

SanitizeFileID(fileID) ==
    LET hash == MD5Hex(fileID)
        r1 == ReplaceAll(fileID, "/", "_")
        r2 == ReplaceAll(r1, "\\", "_")
        r3 == ReplaceAllDotDot(r2)
        readablePart == IF Len(r3) > ReadableLimit THEN SubSeq(r3, 1, ReadableLimit) ELSE r3
    IN  readablePart \o <<"_">> \o SubSeq(hash, 1, HashPrefixLen)

Digits == <<"0","1","2","3","4","5","6","7","8","9">>

RECURSIVE Itoa(_)
Itoa(n) == IF n < 10 THEN <<Digits[n + 1]>> ELSE Itoa(n \div 10) \o <<Digits[(n % 10) + 1]>>

ChunkNameWidth == 6

\* fmt.Sprintf("%06d.part", index), index >= 0
ChunkName(index) ==
    LET d == Itoa(index)
        pad == IF Len(d) >= ChunkNameWidth THEN <<>> ELSE [k \in 1..(ChunkNameWidth - Len(d)) |-> "0"]
    IN  pad \o d \o <<".","p","a","r","t">>

(***************************************************************************)
(* Retry policy: error classification (utils/retry.go).                    *)
(***************************************************************************)
UpperCase == <<"A","B","C","D","E","F","G","H","I","J","K","L","M","N","O","P","Q","R","S","T","U","V","W","X","Y","Z">>
LowerCase == <<"a","b","c","d","e","f","g","h","i","j","k","l","m","n","o","p","q","r","s","t","u","v","w","x","y","z">>

LowerOf == [c \in {UpperCase[u] : u \in 1..Len(UpperCase)} |->
               LowerCase[CHOOSE u \in 1..Len(UpperCase) : UpperCase[u] = c]]

toLower(s) == [k \in 1..Len(s) |-> IF s[k] \in DOMAIN LowerOf THEN LowerOf[s[k]] ELSE s[k]]

containsIgnoreCase(str, substr) ==
    LET a == toLower(str)
        b == toLower(substr)
    IN  \E k \in 0..(Len(str) - Len(substr)) : \A j \in 1..Len(substr) : a[k + j] = b[j]

contains(str, substr) ==
    /\ Len(str) >= Len(substr)
    /\ \/ str = substr
       \/ Len(str) > Len(substr) /\ containsIgnoreCase(str, substr)

retryableErrors ==
    << <<"c","o","n","n","e","c","t","i","o","n"," ","r","e","f","u","s","e","d">>,
       <<"c","o","n","n","e","c","t","i","o","n"," ","r","e","s","e","t">>,
       <<"c","o","n","n","e","c","t","i","o","n"," ","t","i","m","e","o","u","t">>,
       <<"n","e","t","w","o","r","k"," ","i","s"," ","u","n","r","e","a","c","h","a","b","l","e">>,
       <<"t","e","m","p","o","r","a","r","y"," ","f","a","i","l","u","r","e">>,
       <<"s","e","r","v","e","r"," ","e","r","r","o","r">>,
       <<"s","e","r","v","i","c","e"," ","u","n","a","v","a","i","l","a","b","l","e">>,
       <<"t","i","m","e","o","u","t">>,
       <<"d","e","a","d","l","i","n","e"," ","e","x","c","e","e","d","e","d">>,
       <<"i","/","o"," ","t","i","m","e","o","u","t">>,
       <<"b","r","o","k","e","n"," ","p","i","p","e">>,
       <<"n","o"," ","r","o","u","t","e"," ","t","o"," ","h","o","s","t">>,
       <<"o","p","e","r","a","t","i","o","n"," ","t","i","m","e","d"," ","o","u","t">> >>

\* The error value nil; every error the model builds has a non-empty text.
NoError == <<>>

\* a classification that takes every error for a transient one
IsRetryableErrorAlways(err) == err # NoError

IsRetryableError(err) ==
    /\ err # NoError
    /\ \E k \in 1..Len(retryableErrors) : contains(err, retryableErrors[k])

(***************************************************************************)
(* Configuration (defaults of utils.Config) and the model's universe.      *)
(***************************************************************************)
EnableIntegrityCheck == TRUE
EnableAtomicOperations == TRUE
DefaultMaxRetries == 3

UploadDir == <<"u","p","l","o","a","d">>
MergedDir == <<"m","e","r","g","e","d">>

\* Two client-supplied file identifiers: "f", and the identifier that is
\* spelled like the sanitized form of "f".
FileF == <<"f">>
FileG == SanitizeFileID(FileF)
FileIDs == {FileF, FileG}
FileIDSeq == <<FileF, FileG>>

\* SanitizeFileID on the identifiers of the model, computed once
SafeFileID == (FileF :> SanitizeFileID(FileF)) @@ (FileG :> SanitizeFileID(FileG))

ChunkIndexes == 0..(MaxChunks - 1)
TotalChunksValues == 0..MaxChunks
PayloadA == <<"A">>
PayloadB == <<"B">>
Payloads == {PayloadA, PayloadB}
FileNames == {<<"o","u","t">>}
Reqs == {"r1", "r2"}
ReqSeq == <<"r1", "r2">>

\* What the operating system reports when an injected I/O fault hits.
TransientFault == <<"i","/","o"," ","t","i","m","e","o","u","t">>
PermanentFault == <<"n","o"," ","s","p","a","c","e"," ","l","e","f","t"," ","o","n"," ","d","e","v","i","c","e">>
NotExistFault == <<"n","o"," ","s","u","c","h"," ","f","i","l","e"," ","o","r"," ","d","i","r","e","c","t","o","r","y">>
OSFaults == {TransientFault, PermanentFault}

\* A digest no content of the model has, and a string that is no digest.
WrongMD5 == <<"0","0","0","0","0","0","0","0","0","0","0","0","0","0","0","0","0","0","0","0","0","0","0","0","0","0","0","0","0","0","0","0">>
TimeoutText == <<"t","i","m","e","o","u","t">>

LockExt == <<".","l","o","c","k">>
MergeLockExt == <<".","m","e","r","g","e",".","l","o","c","k">>

AbsentFile == [exists |-> FALSE, data |-> <<>>]
File(d) == [exists |-> TRUE, data |-> d]

Dirs == FileIDs \cup {SafeFileID[f] : f \in FileIDs}
ChunkNames == {ChunkName(k) : k \in ChunkIndexes}
EmptyDir == [n \in ChunkNames |-> AbsentFile]

NoTask == 0
ObjIds == 1..(Cardinality(FileIDs) + Cardinality(Reqs))

NoChunk == [status |-> "none"]
FreeObj == [live |-> FALSE, fileID |-> <<>>, status |-> "", totalChunks |-> 0,
            chunks |-> [k \in ChunkIndexes |-> NoChunk], fileMD5 |-> <<>>]

IdleReq == [op |-> "none", pc |-> "idle", fileID |-> <<>>, index |-> 0, data |-> <<>>,
            md5 |-> <<>>, total |-> 0, filename |-> <<>>, task |-> NoTask,
            acquired |-> FALSE, attempt |-> 0, tmp |-> AbsentFile, i |-> 0,
            code |-> 0, why |-> "", calc |-> <<>>]

\* RetryWithBackoff run on its own: not running
DefaultRetryConfig == [maxRetries |-> DefaultMaxRetries, initialDelay |-> 1,
                       maxDelay |-> 30, backoffFactor |-> 2]
NoRetry == [pc |-> "off", config |-> DefaultRetryConfig, attempt |-> 0, calls |-> 0,
            errs |-> <<>>, delays |-> <<>>, result |-> "none", lastErr |-> <<>>,
            ctx |-> "live"]

VARIABLES
    tasks,       \* TaskStorage.tasks: fileID -> the task object it points to
    heap,        \* the UploadTask objects, by identity
    chunkFiles,  \* UploadDir/<dir>/<chunk name>
    lockFiles,   \* the lock files that exist under UploadDir
    merged,      \* MergedDir/<name>
    reqs,        \* the HTTP requests being handled
    cleanups,    \* detached clean-up goroutines and the step each is at
    faultBudget, \* I/O faults the environment may still inject
    retry,       \* a RetryWithBackoff call run on its own
    breaker,     \* a CircuitBreaker and the Execute call on it
    locks,       \* LockFile instances on one lock path
    store,       \* TaskStorage.tasks as the task-management handlers see it
    disk,        \* the files of UploadDir/.metadata, by name
    writes,      \* the sides of TaskStorage.mutex held at the writes of the last operation
    clock,       \* time.Now(), in days
    san,         \* SanitizeFileID applied to a pair of identifiers
    dest         \* the destination a merge request is given

uploaderVars == <<tasks, heap, chunkFiles, lockFiles, merged, reqs, cleanups, faultBudget>>
storeVars == <<store, disk, writes, clock>>
utilVars == <<breaker, locks, storeVars, san, dest>>
vars == <<uploaderVars, retry, utilVars>>

InitUploader(budget) ==
    /\ tasks = [f \in FileIDs |-> NoTask]
    /\ heap = [o \in ObjIds |-> FreeObj]
    /\ chunkFiles = [d \in Dirs |-> EmptyDir]
    /\ lockFiles = {}
    /\ merged = [n \in FileNames |-> AbsentFile]
    /\ reqs = [r \in Reqs |-> IdleReq]
    /\ cleanups = {}
    /\ faultBudget = budget

(***************************************************************************)
(* TaskStorage (utils/storage.go).  Handlers keep the *UploadTask they got *)
(* from GetTask, so tasks are objects on a heap; an object no map entry    *)
(* and no request refers to is garbage.  Object identities are renumbered  *)
(* in the order map entries and requests refer to them.                    *)
(***************************************************************************)
Min(S) == CHOOSE x \in S : \A y \in S : x <= y

Holders(t, rq) ==
    [k \in 1..(Len(FileIDSeq) + Len(ReqSeq)) |->
        IF k <= Len(FileIDSeq) THEN t[FileIDSeq[k]] ELSE rq[ReqSeq[k - Len(FileIDSeq)]].task]

Collect(h, t, rq) ==
    LET refs == Holders(t, rq)
        live == {refs[k] : k \in DOMAIN refs} \ {NoTask}
        first(o) == Min({k \in DOMAIN refs : refs[k] = o})
        rank(o) == Cardinality({p \in live : first(p) < first(o)}) + 1
        old(n) == CHOOSE o \in live : rank(o) = n
    IN  [heap |-> [n \in ObjIds |-> IF n <= Cardinality(live) THEN h[old(n)] ELSE FreeObj],
         tasks |-> [f \in FileIDs |-> IF t[f] = NoTask THEN NoTask ELSE rank(t[f])],
         reqs |-> [r \in Reqs |-> [rq[r] EXCEPT !.task = IF @ = NoTask THEN NoTask ELSE rank(@)]]]

NewObj == CHOOSE o \in ObjIds : ~heap[o].live /\ \A p \in ObjIds : ~heap[p].live => o <= p

CompletedChunks(task) == {k \in ChunkIndexes : task.chunks[k].status = "completed"}

\* getUploadedChunksInternal
GetUploadedChunks(fileID) ==
    IF tasks[fileID] = NoTask THEN {} ELSE CompletedChunks(heap[tasks[fileID]])

\* UpdateChunk on an existing task: the heap after it
UpdateChunk(fileID, chunkIndex, chunkInfo) ==
    LET o == tasks[fileID]
        c2 == [heap[o].chunks EXCEPT ![chunkIndex] = chunkInfo]
        completedChunks == Cardinality({k \in ChunkIndexes : c2[k].status = "completed"})
    IN  [heap EXCEPT ![o].chunks = c2,
                     ![o].status = IF completedChunks = heap[o].totalChunks
                                   THEN "completed" ELSE @]

NewTask(fileID, totalChunks) ==
    [live |-> TRUE, fileID |-> fileID, status |-> "uploading", totalChunks |-> totalChunks,
     chunks |-> [k \in ChunkIndexes |-> NoChunk], fileMD5 |-> <<>>]

\* SaveTask: s.tasks[task.FileID] = task
SaveTask(o, h) == [tasks EXCEPT ![h[o].fileID] = o]

(***************************************************************************)
(* LockFile (utils/atomic.go)                                              *)
(***************************************************************************)
\* Acquire: O_CREATE|O_EXCL succeeds exactly when no file is at the path
AcquireSucceeds(path) == path \notin lockFiles

\* a Release that removes the file whoever holds it
ReleaseAlways(acquired, path) == lockFiles \ {path}

\* Release by a holder: os.Remove(lf.path)
Release(acquired, path) == IF acquired THEN lockFiles \ {path} ELSE lockFiles

(***************************************************************************)
(* AtomicWriter (utils/atomic.go)                                          *)
(***************************************************************************)
\* a Rollback that closes the temp file and leaves it on disk
RollbackKeepsTemp(tmp) == tmp

\* Rollback: the temp file is closed and removed
Rollback(tmp) == AbsentFile

UploadLockPath(fileID) == fileID \o LockExt
MergeLockPath(fileID) == SafeFileID[fileID] \o MergeLockExt

(***************************************************************************)
(* RetryWithBackoff as the handlers use it (DefaultRetryConfig): what the  *)
(* request does after one attempt ended with err.                          *)
(***************************************************************************)
AfterAttempt(rq, err, why, donePc, waitPc) ==
    IF err = NoError THEN [rq EXCEPT !.pc = donePc, !.code = 200, !.why = why, !.attempt = 0]
    ELSE IF ~IsRetryableError(err)
    THEN [rq EXCEPT !.pc = donePc, !.code = 500, !.why = why, !.attempt = 0]
    ELSE IF rq.attempt = DefaultMaxRetries
    THEN [rq EXCEPT !.pc = donePc, !.code = 500, !.why = "exhausted", !.attempt = 0]
    ELSE [rq EXCEPT !.pc = waitPc, !.why = why]

\* The select in RetryWithBackoff: the delay elapses, or the request's context is done.
RetryWait(r) ==
    /\ reqs[r].pc \in {"u_wait", "m_wait"}
    /\ \/ reqs' = [reqs EXCEPT ![r].attempt = @ + 1, ![r].why = "", ![r].i = 0,
                               ![r].pc = IF reqs[r].op = "upload" THEN "u_try" ELSE "m_try"]
       \/ reqs' = [reqs EXCEPT ![r].code = 500, ![r].why = "cancelled", ![r].attempt = 0,
                               ![r].pc = IF reqs[r].op = "upload" THEN "u_record" ELSE "m_mark"]
    /\ UNCHANGED <<tasks, heap, chunkFiles, lockFiles, merged, cleanups, faultBudget, retry, utilVars>>

OSError(prefix, path, fault) == <<prefix>> \o path \o <<":", " ">> \o fault

(***************************************************************************)
(* UploadChunk (handler: UploadChunk, uploadChunkWithAtomicOperation)      *)
(***************************************************************************)
SavePath(fileID, index) == UploadDir \o <<"/">> \o fileID \o <<"/">> \o ChunkName(index)

\* the request is parsed and lock.Acquire() is tried; a failure is logged and the
\* upload goes on without the lock
UploadChunk(r, fileID, index, data, chunkMD5) ==
    LET path == UploadLockPath(fileID)
        got == AcquireSucceeds(path)
    IN  /\ reqs[r].pc = "idle"
        /\ lockFiles' = IF got THEN lockFiles \cup {path} ELSE lockFiles
        /\ reqs' = [reqs EXCEPT ![r] = [IdleReq EXCEPT !.op = "upload", !.pc = "u_get",
                        !.fileID = fileID, !.index = index, !.data = data, !.md5 = chunkMD5,
                        !.acquired = got]]
        /\ UNCHANGED <<tasks, heap, chunkFiles, merged, cleanups, faultBudget, retry, utilVars>>

\* GetTask
UploadGetTask(r) ==
    /\ reqs[r].pc = "u_get"
    /\ reqs' = [reqs EXCEPT ![r].pc = IF tasks[reqs[r].fileID] = NoTask THEN "u_save" ELSE "u_try"]
    /\ UNCHANGED <<tasks, heap, chunkFiles, lockFiles, merged, cleanups, faultBudget, retry, utilVars>>

\* the task did not exist: create it (total_chunks as the client sent it) and
\* SaveTask; when writing the metadata file fails the handler answers 500, the
\* task staying in the map
UploadSaveTask(r, totalChunks) ==
    LET rq == reqs[r]
        o == NewObj
        h == [heap EXCEPT ![o] = NewTask(rq.fileID, totalChunks)]
        saved == Collect(h, SaveTask(o, h), [reqs EXCEPT ![r].pc = "u_try"])
        failed == Collect(h, SaveTask(o, h),
                          [reqs EXCEPT ![r].pc = "ret", ![r].code = 500, ![r].why = "save"])
    IN  /\ rq.pc = "u_save"
        /\ \/ /\ tasks' = saved.tasks
              /\ reqs' = saved.reqs
              /\ heap' = saved.heap
              /\ UNCHANGED faultBudget
           \/ /\ faultBudget > 0
              /\ tasks' = failed.tasks
              /\ reqs' = failed.reqs
              /\ heap' = failed.heap
              /\ faultBudget' = faultBudget - 1
        /\ UNCHANGED <<chunkFiles, lockFiles, merged, cleanups, retry, utilVars>>

\* a stat that never finds the chunk: every upload writes again
ChunkNeverStored(existing, data, chunkMD5) == FALSE

\* the chunk is already stored with this size (and this MD5, when one is given)
ChunkAlreadyStored(existing, data, chunkMD5) ==
    /\ existing.exists
    /\ Len(existing.data) = Len(data)
    /\ chunkMD5 # <<>> => FileMD5(existing.data) = chunkMD5

ChunkMD5Mismatch(data, chunkMD5) ==
    chunkMD5 # <<>> /\ EnableIntegrityCheck /\ BytesMD5(data) # chunkMD5

\* uploadChunkWithAtomicOperation up to NewAtomicWriter
UploadAttempt(r) ==
    LET rq == reqs[r]
        path == SavePath(rq.fileID, rq.index)
        existing == chunkFiles[rq.fileID][ChunkName(rq.index)]
    IN  /\ rq.pc = "u_try"
        /\ \/ /\ faultBudget > 0
              /\ \E fault \in OSFaults :
                    reqs' = [reqs EXCEPT ![r] =
                        AfterAttempt(rq, OSError("E_UPLOAD_MKDIR: mkdir ", path, fault),
                                     "mkdir", "u_record", "u_wait")]
              /\ faultBudget' = faultBudget - 1
           \/ /\ ChunkAlreadyStored(existing, rq.data, rq.md5)
              /\ reqs' = [reqs EXCEPT ![r] = AfterAttempt(rq, NoError, "stored", "u_record", "u_wait")]
              /\ UNCHANGED faultBudget
           \/ /\ ~ChunkAlreadyStored(existing, rq.data, rq.md5)
              /\ ChunkMD5Mismatch(rq.data, rq.md5)
              /\ reqs' = [reqs EXCEPT ![r] =
                    AfterAttempt(rq, <<"E_CHUNK_MD5: want=">> \o rq.md5 \o <<", got=">> \o BytesMD5(rq.data),
                                 "integrity", "u_record", "u_wait")]
              /\ UNCHANGED faultBudget
           \/ /\ ~ChunkAlreadyStored(existing, rq.data, rq.md5)
              /\ ~ChunkMD5Mismatch(rq.data, rq.md5)
              /\ \/ /\ faultBudget > 0
                    /\ \E fault \in OSFaults :
                          reqs' = [reqs EXCEPT ![r] =
                              AfterAttempt(rq, OSError("E_WRITER_CREATE: open ", path, fault),
                                           "create", "u_record", "u_wait")]
                    /\ faultBudget' = faultBudget - 1
                 \/ /\ reqs' = [reqs EXCEPT ![r].tmp = File(<<>>), ![r].pc = "u_write"]
                    /\ UNCHANGED faultBudget
        /\ UNCHANGED <<tasks, heap, chunkFiles, lockFiles, merged, cleanups, retry, utilVars>>

\* writer.Write(data) and writer.Commit(): sync, close, rename onto the chunk path
UploadCommit(r) ==
    LET rq == reqs[r]
        path == SavePath(rq.fileID, rq.index)
    IN  /\ rq.pc = "u_write"
        /\ \/ /\ faultBudget > 0
              /\ \E fault \in OSFaults :
                    reqs' = [reqs EXCEPT ![r] =
                        AfterAttempt([rq EXCEPT !.tmp = Rollback(rq.tmp)],
                                     OSError("E_CHUNK_WRITE: write ", path, fault),
                                     "write", "u_record", "u_wait")]
              /\ faultBudget' = faultBudget - 1
              /\ UNCHANGED chunkFiles
           \/ /\ ~rq.tmp.exists
              /\ reqs' = [reqs EXCEPT ![r] =
                      AfterAttempt(rq, OSError("E_CHUNK_COMMIT: rename ", path, NotExistFault),
                                   "rename", "u_record", "u_wait")]
              /\ UNCHANGED <<chunkFiles, faultBudget>>
           \/ /\ rq.tmp.exists
              /\ chunkFiles' = [chunkFiles EXCEPT ![rq.fileID][ChunkName(rq.index)] = File(rq.data)]
              /\ reqs' = [reqs EXCEPT ![r] =
                      AfterAttempt([rq EXCEPT !.tmp = AbsentFile], NoError, "written", "u_record", "u_wait")]
              /\ UNCHANGED faultBudget
        /\ UNCHANGED <<tasks, heap, lockFiles, merged, cleanups, retry, utilVars>>

\* UpdateChunk with status completed, or failed when the retries gave up
UploadRecord(r) ==
    LET rq == reqs[r]
        chunkInfo == IF rq.code = 200
                     THEN [status |-> "completed"] ELSE [status |-> "failed"]
    IN  /\ rq.pc = "u_record"
        /\ heap' = IF tasks[rq.fileID] = NoTask THEN heap
                   ELSE UpdateChunk(rq.fileID, rq.index, chunkInfo)
        /\ reqs' = [reqs EXCEPT ![r].pc = "ret"]
        /\ UNCHANGED <<tasks, chunkFiles, lockFiles, merged, cleanups, faultBudget, retry, utilVars>>

\* the handler returns: the deferred lock.Release() runs
Return(r) ==
    LET rq == reqs[r]
        path == IF rq.op = "upload" THEN UploadLockPath(rq.fileID) ELSE MergeLockPath(rq.fileID)
        n == Collect(heap, tasks, [reqs EXCEPT ![r] = IdleReq])
    IN  /\ rq.pc = "ret"
        /\ lockFiles' = Release(rq.acquired, path)
        /\ reqs' = n.reqs
        /\ heap' = n.heap
        /\ tasks' = n.tasks
        /\ UNCHANGED <<chunkFiles, merged, cleanups, faultBudget, retry, utilVars>>

(***************************************************************************)
(* MergeChunks (handler: MergeChunks, mergeChunksWithIntegrityCheck)       *)
(***************************************************************************)
ChunkPath(fileID, index) ==
    UploadDir \o <<"/">> \o SafeFileID[fileID] \o <<"/">> \o ChunkName(index)

DstPath(filename) == MergedDir \o <<"/">> \o filename

\* the request is parsed and GetTask is called: 404 when the task is unknown
MergeChunks(r, fileID, filename, totalChunks, expectedMD5) ==
    LET rq == [IdleReq EXCEPT !.op = "merge", !.fileID = fileID, !.filename = filename,
                              !.total = totalChunks, !.md5 = expectedMD5]
        n == Collect(heap, tasks,
                     [reqs EXCEPT ![r] = [rq EXCEPT !.task = tasks[fileID], !.pc = "m_gate"]])
    IN  /\ reqs[r].pc = "idle"
        /\ IF tasks[fileID] = NoTask
           THEN /\ reqs' = [reqs EXCEPT ![r] = [rq EXCEPT !.code = 404, !.why = "unknown", !.pc = "ret"]]
                /\ UNCHANGED <<tasks, heap>>
           ELSE /\ reqs' = n.reqs
                /\ tasks' = n.tasks
                /\ heap' = n.heap
        /\ UNCHANGED <<chunkFiles, lockFiles, merged, cleanups, faultBudget, retry, utilVars>>

\* a gate that only refuses too few chunks
MergeIncompleteFewer(uploadedChunks, totalChunks) == Cardinality(uploadedChunks) < totalChunks

\* len(uploadedChunks) != totalChunks
MergeIncomplete(uploadedChunks, totalChunks) == Cardinality(uploadedChunks) # totalChunks

\* the completeness gate: 400 "incomplete" unless the counts agree
MergeGate(r) ==
    LET rq == reqs[r]
    IN  /\ rq.pc = "m_gate"
        /\ reqs' = IF MergeIncomplete(GetUploadedChunks(rq.fileID), rq.total)
                   THEN [reqs EXCEPT ![r].code = 400, ![r].why = "incomplete", ![r].pc = "ret"]
                   ELSE [reqs EXCEPT ![r].pc = "m_lock"]
        /\ UNCHANGED <<tasks, heap, chunkFiles, lockFiles, merged, cleanups, faultBudget, retry, utilVars>>

\* lock.Acquire() on the merge lock: 409 when it is held
MergeAcquire(r) ==
    LET rq == reqs[r]
        path == MergeLockPath(rq.fileID)
    IN  /\ rq.pc = "m_lock"
        /\ IF AcquireSucceeds(path)
           THEN /\ lockFiles' = lockFiles \cup {path}
                /\ reqs' = [reqs EXCEPT ![r].acquired = TRUE, ![r].pc = "m_try"]
           ELSE /\ lockFiles' = lockFiles
                /\ reqs' = [reqs EXCEPT ![r].code = 409, ![r].why = "conflict", ![r].pc = "ret"]
        /\ UNCHANGED <<tasks, heap, chunkFiles, merged, cleanups, faultBudget, retry, utilVars>>

\* the indices whose chunk file os.Stat does not find
MissingChunks(fileID, totalChunks) ==
    {k \in 0..(totalChunks - 1) : ~chunkFiles[SafeFileID[fileID]][ChunkName(k)].exists}

\* mergeChunksWithIntegrityCheck up to NewAtomicWriter
MergeAttempt(r) ==
    LET rq == reqs[r]
        missing == MissingChunks(rq.fileID, rq.total)
    IN  /\ rq.pc = "m_try"
        /\ \/ /\ faultBudget > 0
              /\ \E fault \in OSFaults :
                    reqs' = [reqs EXCEPT ![r] =
                        AfterAttempt(rq, OSError("E_DST_MKDIR: mkdir ", MergedDir, fault),
                                     "mkdir", "m_mark", "m_wait")]
              /\ faultBudget' = faultBudget - 1
           \/ /\ missing # {}
              /\ reqs' = [reqs EXCEPT ![r] =
                    AfterAttempt(rq, <<"E_CHUNK_MISSING: ">> \o ChunkName(Min(missing)),
                                 "missing", "m_mark", "m_wait")]
              /\ UNCHANGED faultBudget
           \/ /\ missing = {}
              /\ \/ /\ faultBudget > 0
                    /\ \E fault \in OSFaults :
                          reqs' = [reqs EXCEPT ![r] =
                              AfterAttempt(rq, OSError("E_WRITER_CREATE: open ", DstPath(rq.filename), fault),
                                           "create", "m_mark", "m_wait")]
                    /\ faultBudget' = faultBudget - 1
                 \/ /\ reqs' = [reqs EXCEPT ![r].tmp = File(<<>>), ![r].i = 0,
                                            ![r].pc = IF rq.total = 0 THEN "m_commit" ELSE "m_copy"]
                    /\ UNCHANGED faultBudget
        /\ UNCHANGED <<tasks, heap, chunkFiles, lockFiles, merged, cleanups, retry, utilVars>>

\* AtomicWriter.Write through io.Copy: the temp file after one more chunk
WriterAppend(tmp, data) == File(tmp.data \o data)

\* a copy loop that writes through to the destination path instead of a temp file
MergeCopyInPlace(r) ==
    LET rq == reqs[r]
        chunk == chunkFiles[SafeFileID[rq.fileID]][ChunkName(rq.i)]
        before == IF rq.i = 0 THEN <<>> ELSE merged[rq.filename].data
    IN  /\ rq.pc = "m_copy"
        /\ chunk.exists
        /\ merged' = [merged EXCEPT ![rq.filename] = File(before \o chunk.data)]
        /\ reqs' = [reqs EXCEPT ![r].tmp = WriterAppend(rq.tmp, chunk.data),
                                ![r].i = rq.i + 1,
                                ![r].pc = IF rq.i + 1 = rq.total THEN "m_commit" ELSE "m_copy"]
        /\ UNCHANGED <<tasks, heap, chunkFiles, lockFiles, cleanups, faultBudget, retry, utilVars>>

\* one round of the copy loop: os.Open(chunkPaths[i]), io.Copy(writer, chunkFile);
\* a failure rolls the writer back
MergeCopy(r) ==
    LET rq == reqs[r]
        path == ChunkPath(rq.fileID, rq.i)
        chunk == chunkFiles[SafeFileID[rq.fileID]][ChunkName(rq.i)]
    IN  /\ rq.pc = "m_copy"
        /\ \/ /\ ~chunk.exists
              /\ reqs' = [reqs EXCEPT ![r] =
                    AfterAttempt([rq EXCEPT !.tmp = Rollback(rq.tmp)],
                                 OSError("E_CHUNK_OPEN: open ", path, NotExistFault),
                                 "open", "m_mark", "m_wait")]
              /\ UNCHANGED faultBudget
           \/ /\ chunk.exists
              /\ faultBudget > 0
              /\ \E fault \in OSFaults :
                    reqs' = [reqs EXCEPT ![r] =
                        AfterAttempt([rq EXCEPT !.tmp = Rollback(rq.tmp)],
                                     OSError("E_CHUNK_COPY: read ", path, fault),
                                     "copy", "m_mark", "m_wait")]
              /\ faultBudget' = faultBudget - 1
           \/ /\ chunk.exists
              /\ reqs' = [reqs EXCEPT ![r].tmp = WriterAppend(rq.tmp, chunk.data),
                                      ![r].i = rq.i + 1,
                                      ![r].pc = IF rq.i + 1 = rq.total THEN "m_commit" ELSE "m_copy"]
              /\ UNCHANGED faultBudget
        /\ UNCHANGED <<tasks, heap, chunkFiles, lockFiles, merged, cleanups, retry, utilVars>>

\* AtomicWriter.Commit: the destination after os.Rename(tempPath, targetPath)
CommitRename(dst, tmp) == File(tmp.data)

\* writer.Commit(): a failing sync, close or rename removes the temp file
MergeCommit(r) ==
    LET rq == reqs[r]
    IN  /\ rq.pc = "m_commit"
        /\ \/ /\ faultBudget > 0
              /\ \E fault \in OSFaults :
                    reqs' = [reqs EXCEPT ![r] =
                        AfterAttempt([rq EXCEPT !.tmp = AbsentFile, !.i = 0],
                                     OSError("E_MERGE_COMMIT: sync ", DstPath(rq.filename), fault),
                                     "commit", "m_mark", "m_wait")]
              /\ faultBudget' = faultBudget - 1
              /\ UNCHANGED merged
           \/ /\ merged' = [merged EXCEPT ![rq.filename] = CommitRename(@, rq.tmp)]
              /\ reqs' = [reqs EXCEPT ![r].tmp = AbsentFile, ![r].i = 0,
                                      ![r].calc = MD5Hex(rq.tmp.data), ![r].pc = "m_verify"]
              /\ UNCHANGED faultBudget
        /\ UNCHANGED <<tasks, heap, chunkFiles, lockFiles, cleanups, retry, utilVars>>

MergeMD5Mismatch(expectedMD5, calculatedMD5) ==
    expectedMD5 # <<>> /\ EnableIntegrityCheck /\ calculatedMD5 # expectedMD5

\* the integrity check after Commit; on success the clean-up goroutine is started
MergeVerify(r) ==
    LET rq == reqs[r]
    IN  /\ rq.pc = "m_verify"
        /\ IF MergeMD5Mismatch(rq.md5, rq.calc)
           THEN /\ merged' = [merged EXCEPT ![rq.filename] = AbsentFile]
                /\ reqs' = [reqs EXCEPT ![r] =
                      AfterAttempt([rq EXCEPT !.calc = <<>>],
                                   <<"E_FILE_MD5: want=">> \o rq.md5 \o <<", got=">> \o rq.calc,
                                   "integrity", "m_mark", "m_wait")]
                /\ UNCHANGED cleanups
           ELSE /\ cleanups' = cleanups \cup {[fileID |-> rq.fileID, kind |-> "chunks"]}
                /\ reqs' = [reqs EXCEPT ![r] = AfterAttempt(rq, NoError, "merged", "m_mark", "m_wait")]
                /\ UNCHANGED merged
        /\ UNCHANGED <<tasks, heap, chunkFiles, lockFiles, faultBudget, retry, utilVars>>

\* task.Status = "failed", or "completed" with the file's MD5, written through the
\* pointer GetTask returned
MergeMark(r) ==
    LET rq == reqs[r]
    IN  /\ rq.pc = "m_mark"
        /\ heap' = IF rq.code = 200
                   THEN [heap EXCEPT ![rq.task].status = "completed", ![rq.task].fileMD5 = rq.calc]
                   ELSE [heap EXCEPT ![rq.task].status = "failed"]
        /\ reqs' = [reqs EXCEPT ![r].pc = "m_save"]
        /\ UNCHANGED <<tasks, chunkFiles, lockFiles, merged, cleanups, faultBudget, retry, utilVars>>

\* a handler that starts the goroutine removing UploadDir/fileID whatever the merge returned
MergeSaveAlwaysCleans(r) ==
    LET rq == reqs[r]
        n == Collect(heap, SaveTask(rq.task, heap), [reqs EXCEPT ![r].pc = "ret"])
    IN  /\ rq.pc = "m_save"
        /\ tasks' = n.tasks
        /\ reqs' = n.reqs
        /\ heap' = n.heap
        /\ cleanups' = cleanups \cup {[fileID |-> rq.fileID, kind |-> "uploadDir"]}
        /\ UNCHANGED <<chunkFiles, lockFiles, merged, faultBudget, retry, utilVars>>

\* SaveTask(task); after a successful merge the handler also starts the goroutine
\* that removes UploadDir/fileID
MergeSave(r) ==
    LET rq == reqs[r]
        n == Collect(heap, SaveTask(rq.task, heap), [reqs EXCEPT ![r].pc = "ret"])
    IN  /\ rq.pc = "m_save"
        /\ tasks' = n.tasks
        /\ reqs' = n.reqs
        /\ heap' = n.heap
        /\ cleanups' = IF rq.code = 200
                       THEN cleanups \cup {[fileID |-> rq.fileID, kind |-> "uploadDir"]}
                       ELSE cleanups
        /\ UNCHANGED <<chunkFiles, lockFiles, merged, faultBudget, retry, utilVars>>

(***************************************************************************)
(* The detached clean-up goroutines                                        *)
(***************************************************************************)
\* os.RemoveAll(dir): the chunk files and every temp file under it are gone
RemoveAll(dir) == [chunkFiles EXCEPT ![dir] = EmptyDir]

TempsRemoved(dir) ==
    [r \in Reqs |-> IF reqs[r].op = "upload" /\ reqs[r].fileID = dir
                    THEN [reqs[r] EXCEPT !.tmp = AbsentFile] ELSE reqs[r]]

\* the goroutine mergeChunksWithIntegrityCheck starts after a successful merge:
\* os.RemoveAll(srcDir), os.Remove of the upload lock and of the merge lock of
\* the sanitized identifier (its three removals are taken as one step)
CleanupChunks(fileID) ==
    LET safeFileID == SafeFileID[fileID]
        job == [fileID |-> fileID, kind |-> "chunks"]
    IN  /\ job \in cleanups
        /\ chunkFiles' = RemoveAll(safeFileID)
        /\ reqs' = TempsRemoved(safeFileID)
        /\ lockFiles' = lockFiles \ {safeFileID \o LockExt, safeFileID \o MergeLockExt}
        /\ cleanups' = cleanups \ {job}
        /\ UNCHANGED <<tasks, heap, merged, faultBudget, retry, utilVars>>

\* the goroutine MergeChunks starts before it answers: os.RemoveAll(UploadDir/fileID)
CleanupUploadDir(fileID) ==
    LET job == [fileID |-> fileID, kind |-> "uploadDir"]
    IN  /\ job \in cleanups
        /\ chunkFiles' = RemoveAll(fileID)
        /\ reqs' = TempsRemoved(fileID)
        /\ cleanups' = cleanups \ {job}
        /\ UNCHANGED <<tasks, heap, lockFiles, merged, faultBudget, retry, utilVars>>

(***************************************************************************)
(* DeleteTask (utils/storage.go)                                           *)
(***************************************************************************)
DeleteTask(fileID) ==
    LET safeFileID == SafeFileID[fileID]
        n == Collect(heap, [tasks EXCEPT ![fileID] = NoTask], TempsRemoved(safeFileID))
    IN  /\ tasks[fileID] # NoTask
        /\ chunkFiles' = RemoveAll(safeFileID)
        /\ lockFiles' = lockFiles \ {safeFileID \o LockExt, safeFileID \o MergeLockExt}
        /\ tasks' = n.tasks
        /\ reqs' = n.reqs
        /\ heap' = n.heap
        /\ UNCHANGED <<merged, cleanups, faultBudget, retry, utilVars>>

(***************************************************************************)
(* PauseTask (handler) on a file task, step by step: GetTask under the     *)
(* read lock, then the status read and the status write through the        *)
(* pointer with no lock held, then SaveTask.                               *)
(***************************************************************************)
\* GetTask: 404 when the task is unknown
PauseGetTask(r, fileID) ==
    LET rq == [IdleReq EXCEPT !.op = "pause", !.fileID = fileID]
        n == Collect(heap, tasks,
                     [reqs EXCEPT ![r] = [rq EXCEPT !.task = tasks[fileID], !.pc = "p_check"]])
    IN  /\ reqs[r].pc = "idle"
        /\ IF tasks[fileID] = NoTask
           THEN /\ reqs' = [reqs EXCEPT ![r] = [rq EXCEPT !.code = 404, !.why = "unknown", !.pc = "ret"]]
                /\ UNCHANGED <<tasks, heap>>
           ELSE /\ reqs' = n.reqs
                /\ tasks' = n.tasks
                /\ heap' = n.heap
        /\ UNCHANGED <<chunkFiles, lockFiles, merged, cleanups, faultBudget, retry, utilVars>>

\* task.Status == "completed": 400
PauseRefused(status) == status = "completed"

\* the status check
PauseCheck(r) ==
    LET rq == reqs[r]
    IN  /\ rq.pc = "p_check"
        /\ reqs' = IF PauseRefused(heap[rq.task].status)
                   THEN [reqs EXCEPT ![r].code = 400, ![r].why = "completed", ![r].pc = "ret"]
                   ELSE [reqs EXCEPT ![r].pc = "p_mark"]
        /\ UNCHANGED <<tasks, heap, chunkFiles, lockFiles, merged, cleanups, faultBudget, retry, utilVars>>

\* task.Status = "paused"
PauseMark(r) ==
    LET rq == reqs[r]
    IN  /\ rq.pc = "p_mark"
        /\ heap' = [heap EXCEPT ![rq.task].status = "paused"]
        /\ reqs' = [reqs EXCEPT ![r].pc = "p_save"]
        /\ UNCHANGED <<tasks, chunkFiles, lockFiles, merged, cleanups, faultBudget, retry, utilVars>>

\* SaveTask(task): 200, or 500 when the metadata file cannot be written, the
\* task being in the map either way
PauseSave(r) ==
    LET rq == reqs[r]
        saved == Collect(heap, SaveTask(rq.task, heap),
                         [reqs EXCEPT ![r].pc = "ret", ![r].code = 200, ![r].why = "paused"])
        failed == Collect(heap, SaveTask(rq.task, heap),
                          [reqs EXCEPT ![r].pc = "ret", ![r].code = 500, ![r].why = "save"])
    IN  /\ rq.pc = "p_save"
        /\ \/ /\ tasks' = saved.tasks
              /\ reqs' = saved.reqs
              /\ heap' = saved.heap
              /\ UNCHANGED faultBudget
           \/ /\ faultBudget > 0
              /\ tasks' = failed.tasks
              /\ reqs' = failed.reqs
              /\ heap' = failed.heap
              /\ faultBudget' = faultBudget - 1
        /\ UNCHANGED <<chunkFiles, lockFiles, merged, cleanups, retry, utilVars>>

(***************************************************************************)
(* RetryWithBackoff (utils/retry.go) run on its own, with any operation:   *)
(* each call of the operation returns nil or one of the error texts below. *)
(***************************************************************************)
OperationErrors == {TransientFault, PermanentFault, TimeoutText}
MaxRetriesValues == 0..MaxRetriesBound
InitialDelays == {1, 2}
MaxDelays == {1, 3}
BackoffFactors == {0, 1, 2}

RECURSIVE Pow(_, _)
Pow(b, n) == IF n = 0 THEN 1 ELSE b * Pow(b, n - 1)

\* a delay that is not limited to maxDelay
calculateDelayUnlimited(attempt, config) ==
    IF attempt > 0
    THEN config.initialDelay * Pow(config.backoffFactor, attempt)
    ELSE config.initialDelay

calculateDelay(attempt, config) ==
    LET delay == IF attempt > 0
                 THEN config.initialDelay * Pow(config.backoffFactor, attempt)
                 ELSE config.initialDelay
    IN  IF delay > config.maxDelay THEN config.maxDelay ELSE delay

\* RetryWithBackoff is called: attempt := 0
RetryWithBackoff(config) ==
    /\ retry.pc = "off"
    /\ retry' = [NoRetry EXCEPT !.pc = IF 0 <= config.maxRetries THEN "call" ELSE "done",
                                !.result = IF 0 <= config.maxRetries THEN "none" ELSE "exhausted",
                                !.config = config]
    /\ UNCHANGED <<uploaderVars, utilVars>>

\* a loop that gives up one attempt early
RetryOperationOffByOne(err) ==
    LET rw == [retry EXCEPT !.calls = @ + 1, !.errs = Append(@, err)]
    IN  /\ retry.pc = "call"
        /\ retry' = IF err = NoError
                    THEN [rw EXCEPT !.pc = "done", !.result = "nil"]
                    ELSE IF ~IsRetryableError(err)
                    THEN [rw EXCEPT !.pc = "done", !.result = "not_retryable", !.lastErr = err]
                    ELSE IF retry.attempt + 1 >= retry.config.maxRetries
                    THEN [rw EXCEPT !.pc = "done", !.result = "exhausted", !.lastErr = err]
                    ELSE [rw EXCEPT !.pc = "wait", !.lastErr = err,
                                    !.delays = Append(@, calculateDelay(retry.attempt, retry.config))]
        /\ UNCHANGED <<uploaderVars, utilVars>>

\* operation() is called and returns err
RetryOperation(err) ==
    LET rw == [retry EXCEPT !.calls = @ + 1, !.errs = Append(@, err)]
    IN  /\ retry.pc = "call"
        /\ retry' = IF err = NoError
                    THEN [rw EXCEPT !.pc = "done", !.result = "nil"]
                    ELSE IF ~IsRetryableError(err)
                    THEN [rw EXCEPT !.pc = "done", !.result = "not_retryable", !.lastErr = err]
                    ELSE IF retry.attempt = retry.config.maxRetries
                    THEN [rw EXCEPT !.pc = "done", !.result = "exhausted", !.lastErr = err]
                    ELSE [rw EXCEPT !.pc = "wait", !.lastErr = err,
                                    !.delays = Append(@, calculateDelay(retry.attempt, retry.config))]
        /\ UNCHANGED <<uploaderVars, utilVars>>

\* the caller's context is cancelled, or its deadline expires, at any moment of
\* the loop
CtxCancel ==
    /\ retry.pc \in {"call", "wait"}
    /\ retry.ctx = "live"
    /\ retry' = [retry EXCEPT !.ctx = "done"]
    /\ UNCHANGED <<uploaderVars, utilVars>>

\* a select that does not look at ctx.Done()
RetryDelayIgnoresCtx ==
    /\ retry.pc = "wait"
    /\ retry' = [retry EXCEPT !.pc = "call", !.attempt = @ + 1]
    /\ UNCHANGED <<uploaderVars, utilVars>>

\* the select: ctx.Done() when the context is done, else time.After(delay) fires
RetryDelay ==
    /\ retry.pc = "wait"
    /\ retry' = IF retry.ctx = "done"
                THEN [retry EXCEPT !.pc = "done", !.result = "ctx"]
                ELSE [retry EXCEPT !.pc = "call", !.attempt = @ + 1]
    /\ UNCHANGED <<uploaderVars, utilVars>>

\* the caller has the result; the next call may start
RetryReturn ==
    /\ retry.pc = "done"
    /\ retry' = NoRetry
    /\ UNCHANGED <<uploaderVars, utilVars>>

(***************************************************************************)
(* CircuitBreaker (utils/retry.go).  Execute is one call of one caller:    *)
(* the state check, the operation (any code, which returns nil or an       *)
(* error), and the bookkeeping after it.  Time is a clock that ticks.      *)
(***************************************************************************)
MaxClock == 3
MaxBreakerFailures == 3
MaxFailuresValues == {1, 2}
ResetTimeouts == {0, 1}

NewCircuitBreaker(maxFailures, resetTimeout) ==
    [maxFailures |-> maxFailures, resetTimeout |-> resetTimeout, failures |-> 0,
     lastFailTime |-> 0, state |-> "closed", now |-> 0, pc |-> "idle", last |-> "none"]

NoBreaker == NewCircuitBreaker(1, 0)

\* a threshold that opens the breaker one failure late
BreakerTrippedLate(failures, maxFailures) == failures > maxFailures

\* cb.failures >= cb.maxFailures
BreakerTripped(failures, maxFailures) == failures >= maxFailures

\* time.Since(cb.lastFailTime) > cb.resetTimeout
ResetTimeoutElapsed(cb) == cb.now - cb.lastFailTime > cb.resetTimeout

\* time passes
Tick ==
    /\ breaker.now < MaxClock
    /\ breaker' = [breaker EXCEPT !.now = @ + 1]
    /\ UNCHANGED <<uploaderVars, retry, locks, storeVars, san, dest>>

\* Execute up to the call of the operation: an open breaker rejects the call, or
\* turns half-open once resetTimeout has elapsed
Execute ==
    /\ breaker.pc = "idle"
    /\ breaker' = IF breaker.state = "open"
                  THEN IF ResetTimeoutElapsed(breaker)
                       THEN [breaker EXCEPT !.state = "half-open", !.pc = "running"]
                       ELSE [breaker EXCEPT !.last = "rejected"]
                  ELSE [breaker EXCEPT !.pc = "running"]
    /\ UNCHANGED <<uploaderVars, retry, locks, storeVars, san, dest>>

\* the operation returned err: the rest of Execute
ExecuteOperation(err) ==
    /\ breaker.pc = "running"
    /\ err # NoError => breaker.failures < MaxBreakerFailures
    /\ breaker' = IF err # NoError
                  THEN [breaker EXCEPT
                          !.failures = @ + 1,
                          !.lastFailTime = breaker.now,
                          !.state = IF BreakerTripped(breaker.failures + 1, breaker.maxFailures)
                                    THEN "open" ELSE @,
                          !.pc = "idle", !.last = "err"]
                  ELSE [breaker EXCEPT !.failures = 0, !.state = "closed",
                                       !.pc = "idle", !.last = "nil"]
    /\ UNCHANGED <<uploaderVars, retry, locks, storeVars, san, dest>>

(***************************************************************************)
(* LockFile (utils/atomic.go): several instances made by NewLockFile for   *)
(* the same path, each with its own acquired flag.                         *)
(***************************************************************************)
LockInstances == {"l1", "l2", "l3"}
LockPath == UploadLockPath(FileF)

NewLockFile == [acquired |-> FALSE, last |-> "none"]
NoLocks == [l \in LockInstances |-> NewLockFile]

\* lf.Acquire()
LockAcquire(l) ==
    /\ \/ /\ locks[l].acquired
          /\ locks' = [locks EXCEPT ![l].last = "held"]
          /\ UNCHANGED <<lockFiles, faultBudget>>
       \/ /\ ~locks[l].acquired
          /\ ~AcquireSucceeds(LockPath)
          /\ locks' = [locks EXCEPT ![l].last = "locked"]
          /\ UNCHANGED <<lockFiles, faultBudget>>
       \/ /\ ~locks[l].acquired
          /\ AcquireSucceeds(LockPath)
          /\ \/ /\ locks' = [locks EXCEPT ![l].acquired = TRUE, ![l].last = "acquired"]
                /\ lockFiles' = lockFiles \cup {LockPath}
                /\ UNCHANGED faultBudget
             \/ /\ faultBudget > 0
                /\ locks' = [locks EXCEPT ![l].last = "error"]
                /\ faultBudget' = faultBudget - 1
                /\ UNCHANGED lockFiles
    /\ UNCHANGED <<tasks, heap, chunkFiles, merged, reqs, cleanups, retry, breaker, storeVars, san, dest>>

\* lf.Release()
LockRelease(l) ==
    /\ lockFiles' = Release(locks[l].acquired, LockPath)
    /\ locks' = [locks EXCEPT ![l].acquired = FALSE,
                              ![l].last = IF locks[l].acquired THEN "released" ELSE "noop"]
    /\ UNCHANGED <<tasks, heap, chunkFiles, merged, reqs, cleanups, faultBudget, retry, breaker, storeVars, san, dest>>

(***************************************************************************)
(* The destination of a merge (mergeChunksWithIntegrityCheck): the         *)
(* relative_path of the request, cleaned with filepath.Clean and joined to *)
(* MergedDir, or the filename when no relative_path is sent.               *)
(***************************************************************************)
MaxDepth == 3

RECURSIVE Split(_)
\* the elements of a path between its separators
Split(path) ==
    IF path = <<>> THEN << <<>> >>
    ELSE IF Head(path) = "/" THEN << <<>> >> \o Split(Tail(path))
    ELSE LET rest == Split(Tail(path))
         IN  << <<Head(path)>> \o Head(rest) >> \o Tail(rest)

RECURSIVE JoinElements(_)
\* strings.Join(elements, "/")
JoinElements(elements) ==
    IF elements = <<>> THEN <<>>
    ELSE IF Len(elements) = 1 THEN Head(elements)
    ELSE Head(elements) \o <<"/">> \o JoinElements(Tail(elements))

DotDot == <<".", ".">>

RECURSIVE CleanElements(_, _, _)
\* filepath.Clean element by element: empty elements and "." are dropped, ".."
\* removes the element before it, is dropped at the root and kept at the start
\* of a relative path
CleanElements(elements, out, rooted) ==
    IF elements = <<>> THEN out
    ELSE LET e == Head(elements)
             rest == Tail(elements)
         IN  IF e = <<>> \/ e = <<".">> THEN CleanElements(rest, out, rooted)
             ELSE IF e # DotDot THEN CleanElements(rest, Append(out, e), rooted)
             ELSE IF out # <<>> /\ out[Len(out)] # DotDot
             THEN CleanElements(rest, SubSeq(out, 1, Len(out) - 1), rooted)
             ELSE IF rooted THEN CleanElements(rest, out, rooted)
             ELSE CleanElements(rest, Append(out, e), rooted)

\* filepath.Clean
Clean(path) ==
    IF path = <<>> THEN <<".">>
    ELSE LET rooted == Head(path) = "/"
             body == JoinElements(CleanElements(Split(path), <<>>, rooted))
         IN  IF rooted THEN <<"/">> \o body
             ELSE IF body = <<>> THEN <<".">> ELSE body

\* filepath.Join of two elements
Join(dir, path) ==
    IF dir = <<>> THEN Clean(path)
    ELSE IF path = <<>> THEN Clean(dir)
    ELSE Clean(dir \o <<"/">> \o path)

\* strings.Contains(cleanPath, "..")
ContainsDotDot(cleanPath) ==
    \E k \in 1..(Len(cleanPath) - 1) : cleanPath[k] = "." /\ cleanPath[k + 1] = "."

InvalidRelativePath == <<"E_RELATIVE_PATH: invalid">>

NoDst == [relativePath |-> <<>>, filename |-> <<>>, err |-> NoError, retried |-> FALSE,
          dstPath |-> <<>>]

\* a check that lets every relative path pass
RelativePathRejectedNever(relativePath) == FALSE

\* the request's relative_path is refused
RelativePathRejected(relativePath) ==
    relativePath # <<>> /\ ContainsDotDot(Clean(relativePath))

\* mergeChunksWithIntegrityCheck up to the destination path, run by
\* RetryWithBackoff: a refused relative_path ends the attempt before
\* EnsureDirectory and NewAtomicWriter, and the error is retried when
\* IsRetryableError says so
MergeDestination(relativePath, filename) ==
    LET err == IF RelativePathRejected(relativePath) THEN InvalidRelativePath ELSE NoError
    IN  /\ dest' = [relativePath |-> relativePath, filename |-> filename, err |-> err,
                   retried |-> IsRetryableError(err),
                   dstPath |-> IF err # NoError THEN <<>>
                               ELSE IF relativePath # <<>>
                               THEN Join(MergedDir, Clean(relativePath))
                               ELSE Join(MergedDir, filename)]
        /\ UNCHANGED <<uploaderVars, retry, breaker, locks, storeVars, san>>
(***************************************************************************)
(* TaskStorage with a folder task and two plain file tasks                 *)
(* (utils/storage.go) and the handlers that create, pause, resume, delete  *)
(* and summarise tasks.  Each handler runs to its end in one step; the     *)
(* chunk results and merge failures of the uploads arrive as UpdateChunk   *)
(* calls and as the failed mark MergeChunks leaves.  A task is named by a  *)
(* short handle, in the map and in its FileID field; the identifier the    *)
(* handle stands for, from which saveTaskFile derives the name of the      *)
(* metadata file, is FileIDOf[handle].                                     *)
(***************************************************************************)
MaxResumes == 2
MaxDay == 9
RetentionDays == 7
FolderID == "folder"
SubTaskIDs == <<"a", "b">>
FolderTaskIDs == {FolderID} \cup {SubTaskIDs[k] : k \in 1..Len(SubTaskIDs)}
FileTaskIDs == {"x", "y"}
TaskIDs == FolderTaskIDs \cup FileTaskIDs

\* two identifiers that differ only in their separators
SepX == <<"a","/","a","\\","a","_","a","_","a","/","a","_","a","/","a","\\","a","\\","a","/","a","_","a">>
SepY == <<"a","/","a","\\","a","_","a","_","a","\\","a","\\","a","_","a","\\","a","_","a","\\","a","\\","a">>

\* the FileID of each task of the model
FileIDOf == ("folder" :> <<"d">>) @@ ("a" :> <<"d","/","a">>) @@ ("b" :> <<"d","/","b">>)
            @@ ("x" :> SepX) @@ ("y" :> SepY)

NoStoredTask ==
    [exists |-> FALSE, fileID |-> "", status |-> "", retryCount |-> 0, taskType |-> "",
     subTasks |-> <<>>, parentTaskID |-> "", isSubTask |-> FALSE, totalChunks |-> 0,
     chunks |-> [k \in ChunkIndexes |-> NoChunk], updatedAt |-> 0]

NoSummary == [totalFiles |-> 0, completedFiles |-> 0, failedFiles |-> 0, status |-> ""]

NoStore == [tasks |-> [id \in TaskIDs |-> NoStoredTask],
            last |-> [op |-> "none", id |-> "", code |-> 0],
            summary |-> NoSummary]

\* saveTaskFile's path under .metadata: sanitizeFileID(task.FileID) + ".json"
MetaFile(fileID) == SanitizeFileID(fileID) \o <<".","j","s","o","n">>
\* The metadata files of the model's tasks.  Each is named here by the first task
\* whose file it is: two tasks have the same name exactly when saveTaskFile gives
\* them the same path.
TaskIDSeq == <<"folder", "a", "b", "x", "y">>
MetaFileOf == [id \in TaskIDs |->
                 TaskIDSeq[Min({k \in 1..Len(TaskIDSeq) :
                                   MetaFile(FileIDOf[TaskIDSeq[k]]) = MetaFile(FileIDOf[id])})]]
MetaFiles == {MetaFileOf[id] : id \in TaskIDs}

\* a metadata file: the record it holds and the JSON fields it lacks
NoFile == [exists |-> FALSE, lacks |-> {}, task |-> NoStoredTask]
NoDisk == [n \in MetaFiles |-> NoFile]

\* json.MarshalIndent(task): every field is written
Marshal(task) == [exists |-> TRUE, lacks |-> {}, task |-> task]

\* json.Unmarshal: a field the file lacks keeps its zero value
Unmarshal(file) ==
    [file.task EXCEPT
        !.taskType = IF "task_type" \in file.lacks THEN "" ELSE @,
        !.chunks = IF "chunks" \in file.lacks THEN [k \in ChunkIndexes |-> NoChunk] ELSE @,
        !.subTasks = IF "sub_tasks" \in file.lacks THEN <<>> ELSE @]

\* saveTaskFile: os.WriteFile(taskFile, data)
saveTaskFile(d, task) == [d EXCEPT ![MetaFileOf[task.fileID]] = Marshal(task)]

RECURSIVE saveTaskFiles(_, _, _)
\* saveTaskFile for the tasks ids of t, one after the other
saveTaskFiles(d, t, ids) ==
    IF ids = <<>> THEN d
    ELSE saveTaskFiles(saveTaskFile(d, t[Head(ids)]), t, Tail(ids))

\* the defaults loadTasks gives a record of an older format
Defaults(task) == [task EXCEPT !.taskType = IF @ = "" THEN "file" ELSE @]

\* loadTasks: every readable record of .metadata, keyed by its FileID
loadTasks(d) ==
    [id \in TaskIDs |->
        IF \E n \in MetaFiles : d[n].exists /\ d[n].task.fileID = id
        THEN LET n == CHOOSE n \in MetaFiles : d[n].exists /\ d[n].task.fileID = id
             IN  Defaults(Unmarshal(d[n]))
        ELSE NoStoredTask]

RECURSIVE Select(_, _)
\* the sub-sequence of the ids that are in keep
Select(ids, keep) ==
    IF ids = <<>> THEN <<>>
    ELSE (IF Head(ids) \in keep THEN <<Head(ids)>> ELSE <<>>) \o Select(Tail(ids), keep)

\* TaskStorage.CreateFolderTask: the folder task and one sub-task per file
NewFolderTasks(t, files, totalChunks) ==
    [id \in TaskIDs |->
        IF id = FolderID
        THEN [NoStoredTask EXCEPT !.exists = TRUE, !.fileID = id, !.status = "uploading",
                                  !.taskType = "folder", !.subTasks = files, !.updatedAt = clock]
        ELSE IF \E k \in 1..Len(files) : files[k] = id
        THEN [NoStoredTask EXCEPT !.exists = TRUE, !.fileID = id, !.status = "pending",
                                  !.taskType = "file", !.parentTaskID = FolderID,
                                  !.isSubTask = TRUE, !.totalChunks = totalChunks,
                                  !.updatedAt = clock]
        ELSE t[id]]

\* TaskStorage.CreateFolderTask called as it is, without the handler
StorageCreateFolderTask(files, totalChunks) ==
    LET t2 == NewFolderTasks(store.tasks, files, totalChunks)
    IN  /\ \A id \in FolderTaskIDs : ~store.tasks[id].exists
        /\ store' = [store EXCEPT !.tasks = t2,
                                  !.last = [op |-> "storage_create", id |-> FolderID, code |-> 200]]
        /\ disk' = saveTaskFiles(disk, t2, files \o <<FolderID>>)
        /\ writes' = {"exclusive"}
        /\ UNCHANGED <<uploaderVars, retry, breaker, locks, clock, san, dest>>

\* a handler that passes an empty files list on to the store
FilesRejectedNever(files) == FALSE

\* the handler's validation: len(req.Files) == 0
FilesRejected(files) == Len(files) = 0

\* CreateFolderTask (handler): 400 for an empty files list, else the store creates the tasks
CreateFolderTask(files, totalChunks) ==
    LET t2 == NewFolderTasks(store.tasks, files, totalChunks)
    IN  /\ \A id \in FolderTaskIDs : ~store.tasks[id].exists
        /\ IF FilesRejected(files)
           THEN /\ store' = [store EXCEPT !.last = [op |-> "create", id |-> "", code |-> 400]]
                /\ writes' = {}
                /\ UNCHANGED disk
           ELSE /\ store' = [store EXCEPT !.tasks = t2,
                                          !.last = [op |-> "create", id |-> FolderID, code |-> 200]]
                /\ disk' = saveTaskFiles(disk, t2, files \o <<FolderID>>)
                /\ writes' = {"exclusive"}
        /\ UNCHANGED <<uploaderVars, retry, breaker, locks, clock, san, dest>>

\* SaveTask of a new file task, as UploadChunk does for an unknown fileID
NewFileTask(fileID, totalChunks) ==
    LET t2 == [store.tasks EXCEPT ![fileID] =
                  [NoStoredTask EXCEPT !.exists = TRUE, !.fileID = fileID,
                                       !.status = "uploading", !.taskType = "",
                                       !.totalChunks = totalChunks, !.updatedAt = clock]]
    IN  /\ ~store.tasks[fileID].exists
        /\ store' = [store EXCEPT !.tasks = t2,
                                  !.last = [op |-> "upload", id |-> fileID, code |-> 200]]
        /\ disk' = saveTaskFile(disk, t2[fileID])
        /\ writes' = {"exclusive"}
        /\ UNCHANGED <<uploaderVars, retry, breaker, locks, clock, san, dest>>

\* a re-aggregation that completes the parent whatever its children are
checkAndUpdateParentTaskAlways(t, parentTaskID) ==
    [t EXCEPT ![parentTaskID].status = "completed", ![parentTaskID].updatedAt = clock]

\* checkAndUpdateParentTask: the tasks after it
checkAndUpdateParentTask(t, parentTaskID) ==
    LET subs == {id \in TaskIDs : \E k \in 1..Len(t[parentTaskID].subTasks) :
                                      t[parentTaskID].subTasks[k] = id /\ t[id].exists}
        allCompleted == \A id \in subs : t[id].status = "completed"
        anyFailed == \E id \in subs : t[id].status = "failed"
    IN  IF parentTaskID \notin TaskIDs \/ ~t[parentTaskID].exists
           \/ t[parentTaskID].taskType # "folder"
        THEN t
        ELSE [t EXCEPT ![parentTaskID].status =
                 IF allCompleted THEN "completed" ELSE IF anyFailed THEN "uploading" ELSE @,
                       ![parentTaskID].updatedAt = clock]

\* Storage.UpdateChunk(fileID, chunkIndex, chunkInfo) as UploadChunk calls it when
\* the chunk is stored ("completed") or could not be ("failed")
StoreUpdateChunk(fileID, chunkIndex, status) ==
    LET t == store.tasks
        c2 == [t[fileID].chunks EXCEPT ![chunkIndex] = [status |-> status]]
        completedChunks == Cardinality({k \in ChunkIndexes : c2[k].status = "completed"})
        done == completedChunks = t[fileID].totalChunks
        t2 == [t EXCEPT ![fileID].chunks = c2,
                        ![fileID].updatedAt = clock,
                        ![fileID].status = IF done THEN "completed" ELSE @]
        parent == t[fileID].parentTaskID
        notify == done /\ t[fileID].isSubTask /\ parent # ""
        t3 == IF notify THEN checkAndUpdateParentTask(t2, parent) ELSE t2
        saved == IF notify /\ parent \in TaskIDs /\ t[parent].exists /\ t[parent].taskType = "folder"
                 THEN <<parent, fileID>> ELSE <<fileID>>
    IN  /\ t[fileID].exists
        /\ store' = [store EXCEPT !.tasks = t3,
                                  !.last = [op |-> "chunk", id |-> fileID, code |-> 200]]
        /\ disk' = saveTaskFiles(disk, t3, saved)
        /\ writes' = {"exclusive"}
        /\ UNCHANGED <<uploaderVars, retry, breaker, locks, clock, san, dest>>

\* MergeChunks after a failed merge: task.Status = "failed"; SaveTask(task)
MergeFailed(fileID) ==
    LET t2 == [store.tasks EXCEPT ![fileID].status = "failed", ![fileID].updatedAt = clock]
    IN  /\ store.tasks[fileID].exists
        /\ store.tasks[fileID].taskType # "folder"
        /\ store' = [store EXCEPT !.tasks = t2,
                                  !.last = [op |-> "merge", id |-> fileID, code |-> 500]]
        /\ disk' = saveTaskFile(disk, t2[fileID])
        /\ writes' = {"none", "exclusive"}
        /\ UNCHANGED <<uploaderVars, retry, breaker, locks, clock, san, dest>>

\* MergeChunks after a successful merge: task.Status = "completed"; SaveTask(task)
MergeCompleted(fileID) ==
    LET t2 == [store.tasks EXCEPT ![fileID].status = "completed", ![fileID].updatedAt = clock]
    IN  /\ store.tasks[fileID].exists
        /\ store.tasks[fileID].taskType # "folder"
        /\ store' = [store EXCEPT !.tasks = t2,
                                  !.last = [op |-> "merge", id |-> fileID, code |-> 200]]
        /\ disk' = saveTaskFile(disk, t2[fileID])
        /\ writes' = {"none", "exclusive"}
        /\ UNCHANGED <<uploaderVars, retry, breaker, locks, clock, san, dest>>

\* a pause that leaves the sub-tasks alone
PauseNoSubTasks(t, subTasks) == t

RECURSIVE PauseSubTasks(_, _)
\* the loop of PauseTask over task.SubTasks
PauseSubTasks(t, subTasks) ==
    IF subTasks = <<>> THEN t
    ELSE LET id == Head(subTasks)
         IN  PauseSubTasks(IF t[id].exists /\ t[id].status = "uploading"
                           THEN [t EXCEPT ![id].status = "paused", ![id].updatedAt = clock]
                           ELSE t,
                           Tail(subTasks))

\* the tasks among ids that differ between t and t2: the ones a handler's loop saved
Changed(t, t2, ids) == Select(ids, {id \in TaskIDs : t2[id] # t[id]})

\* PauseTask
PauseTask(fileID) ==
    LET t == store.tasks
        t1 == [t EXCEPT ![fileID].status = "paused", ![fileID].updatedAt = clock]
        t2 == IF t[fileID].taskType = "folder" THEN PauseSubTasks(t1, t[fileID].subTasks) ELSE t1
    IN  /\ IF ~t[fileID].exists
           THEN /\ store' = [store EXCEPT !.last = [op |-> "pause", id |-> fileID, code |-> 404]]
                /\ UNCHANGED disk
                /\ writes' = {}
           ELSE IF t[fileID].status = "completed"
           THEN /\ store' = [store EXCEPT !.last = [op |-> "pause", id |-> fileID, code |-> 400]]
                /\ UNCHANGED disk
                /\ writes' = {}
           ELSE /\ store' = [store EXCEPT !.tasks = t2,
                                          !.last = [op |-> "pause", id |-> fileID, code |-> 200]]
                /\ disk' = saveTaskFiles(disk, t2, Changed(t1, t2, t[fileID].subTasks) \o <<fileID>>)
                /\ writes' = {"none", "exclusive"}
        /\ UNCHANGED <<uploaderVars, retry, breaker, locks, clock, san, dest>>

\* a resume that leaves failed chunks as they are
KeepFailedChunks(chunks) == chunks

\* the loop over task.Chunks: failed chunks become pending
ResetFailedChunks(chunks) ==
    [k \in ChunkIndexes |-> IF chunks[k].status = "failed" THEN [status |-> "pending"]
                            ELSE chunks[k]]

\* a resume that does not count
ResumedUncounted(task) ==
    [task EXCEPT !.status = "uploading", !.chunks = ResetFailedChunks(@), !.updatedAt = clock]

\* status, RetryCount++ and the chunk reset of one resumed task, and the UpdatedAt
\* its SaveTask sets
Resumed(task) ==
    [task EXCEPT !.status = "uploading", !.retryCount = @ + 1,
                 !.chunks = ResetFailedChunks(@), !.updatedAt = clock]

RECURSIVE ResumeSubTasks(_, _)
\* the loop of ResumeTask and ResumeAllFailedTasks over task.SubTasks
ResumeSubTasks(t, subTasks) ==
    IF subTasks = <<>> THEN t
    ELSE LET id == Head(subTasks)
         IN  ResumeSubTasks(IF t[id].exists /\ t[id].status \in {"paused", "failed"}
                            THEN [t EXCEPT ![id] = Resumed(@)] ELSE t,
                            Tail(subTasks))

\* the statuses a task is resumed from
Resumable == {"paused", "failed", "partial_failed"}

\* the resume of one task with its sub-tasks: the tasks after it
ResumeWithSubTasks(t, fileID) ==
    LET t1 == [t EXCEPT ![fileID] = Resumed(@)]
    IN  IF t[fileID].taskType = "folder" THEN ResumeSubTasks(t1, t[fileID].subTasks) ELSE t1

\* ResumeTask
ResumeTask(fileID) ==
    LET t == store.tasks
        t2 == ResumeWithSubTasks(t, fileID)
    IN  /\ \A id \in TaskIDs : t[id].retryCount < MaxResumes
        /\ IF ~t[fileID].exists
           THEN /\ store' = [store EXCEPT !.last = [op |-> "resume", id |-> fileID, code |-> 404]]
                /\ UNCHANGED disk
                /\ writes' = {}
           ELSE IF t[fileID].status \notin Resumable
           THEN /\ store' = [store EXCEPT !.last = [op |-> "resume", id |-> fileID, code |-> 400]]
                /\ UNCHANGED disk
                /\ writes' = {}
           ELSE /\ store' = [store EXCEPT !.tasks = t2,
                                          !.last = [op |-> "resume", id |-> fileID, code |-> 200]]
                /\ disk' = saveTaskFiles(disk, t2, Changed(t, t2, t[fileID].subTasks) \o <<fileID>>)
                /\ writes' = {"none", "exclusive"}
        /\ UNCHANGED <<uploaderVars, retry, breaker, locks, clock, san, dest>>

RECURSIVE ResumeEach(_, _)
\* the loop of ResumeAllFailedTasks over the tasks, in the order the map yields
ResumeEach(t, order) ==
    IF order = <<>> THEN t
    ELSE LET id == Head(order)
         IN  ResumeEach(IF t[id].exists /\ t[id].status \in Resumable
                        THEN ResumeWithSubTasks(t, id) ELSE t,
                        Tail(order))

\* ResumeAllFailedTasks
ResumeAllFailedTasks(order) ==
    LET t == store.tasks
        t2 == ResumeEach(t, order)
        saved == Changed(t, t2, order)
    IN  /\ \A id \in TaskIDs : t[id].retryCount < MaxResumes
        /\ store' = [store EXCEPT !.tasks = t2,
                                  !.last = [op |-> "resume_all", id |-> "", code |-> 200]]
        /\ disk' = saveTaskFiles(disk, t2, saved)
        /\ writes' = IF saved = <<>> THEN {} ELSE {"none", "exclusive"}
        /\ UNCHANGED <<uploaderVars, retry, breaker, locks, clock, san, dest>>

\* a delete that leaves the sub-tasks in the store
DeleteNoSubTasks(t, subTasks) == t

RECURSIVE DeleteSubTasks(_, _)
\* the loop of DeleteTask over task.SubTasks: deleteTaskInternal for each
DeleteSubTasks(t, subTasks) ==
    IF subTasks = <<>> THEN t
    ELSE DeleteSubTasks([t EXCEPT ![Head(subTasks)] = NoStoredTask], Tail(subTasks))

RECURSIVE removeTaskFiles(_, _)
\* os.Remove of the metadata file of each of ids
removeTaskFiles(d, ids) ==
    IF ids = <<>> THEN d
    ELSE removeTaskFiles([d EXCEPT ![MetaFileOf[Head(ids)]] = NoFile], Tail(ids))

\* DeleteTask (handler and TaskStorage.DeleteTask): a folder's sub-tasks first, then
\* the task itself
StoreDeleteTask(fileID) ==
    LET t == store.tasks
        subTasks == IF t[fileID].taskType = "folder" THEN t[fileID].subTasks ELSE <<>>
        t2 == [DeleteSubTasks(t, subTasks) EXCEPT ![fileID] = NoStoredTask]
    IN  /\ IF ~t[fileID].exists
           THEN /\ store' = [store EXCEPT !.last = [op |-> "delete", id |-> fileID, code |-> 404]]
                /\ UNCHANGED disk
                /\ writes' = {}
           ELSE /\ store' = [store EXCEPT !.tasks = t2,
                                          !.last = [op |-> "delete", id |-> fileID, code |-> 200]]
                /\ disk' = removeTaskFiles(disk, subTasks \o <<fileID>>)
                /\ writes' = {"exclusive"}
        /\ UNCHANGED <<uploaderVars, retry, breaker, locks, clock, san, dest>>

\* a summary that reports failed as soon as one child has failed
SummaryStatusAnyFailed(totalFiles, completedFiles, failedFiles) ==
    IF completedFiles = totalFiles THEN "completed"
    ELSE IF failedFiles > 0 THEN "failed"
    ELSE "uploading"

\* the status GetFolderTaskSummary derives from its counts
SummaryStatus(totalFiles, completedFiles, failedFiles) ==
    IF completedFiles = totalFiles THEN "completed"
    ELSE IF failedFiles > 0 /\ completedFiles + failedFiles = totalFiles THEN "failed"
    ELSE "uploading"

\* the sub-tasks of folder that are in the store with the given status
CountSubTasks(t, folder, status) ==
    Cardinality({k \in 1..Len(t[folder].subTasks) :
                    /\ t[t[folder].subTasks[k]].exists
                    /\ t[t[folder].subTasks[k]].status = status})

\* GetFolderTaskSummary: the summary, and the parent marked completed and saved
\* when every file is
GetFolderTaskSummary(folderTaskID) ==
    LET t == store.tasks
        totalFiles == Len(t[folderTaskID].subTasks)
        completedFiles == CountSubTasks(t, folderTaskID, "completed")
        failedFiles == CountSubTasks(t, folderTaskID, "failed")
        status == SummaryStatus(totalFiles, completedFiles, failedFiles)
        t2 == IF status = "completed" THEN [t EXCEPT ![folderTaskID].status = "completed"] ELSE t
    IN  /\ IF ~t[folderTaskID].exists \/ t[folderTaskID].taskType # "folder"
           THEN /\ store' = [store EXCEPT
                                !.last = [op |-> "summary", id |-> folderTaskID, code |-> 404],
                                !.summary = NoSummary]
                /\ UNCHANGED disk
                /\ writes' = {}
           ELSE /\ store' = [tasks |-> t2,
                             last |-> [op |-> "summary", id |-> folderTaskID, code |-> 200],
                             summary |-> [totalFiles |-> totalFiles,
                                          completedFiles |-> completedFiles,
                                          failedFiles |-> failedFiles, status |-> status]]
                /\ disk' = IF status = "completed" THEN saveTaskFile(disk, t2[folderTaskID])
                           ELSE disk
                /\ writes' = IF status = "completed" THEN {"shared"} ELSE {}
        /\ UNCHANGED <<uploaderVars, retry, breaker, locks, clock, san, dest>>

\* a clean-up that looks at the age alone
ExpiredAnyStatus(task) == task.exists /\ task.updatedAt < clock - RetentionDays

\* the condition of CleanupExpiredTasks: failed or paused, and UpdatedAt before
\* time.Now().AddDate(0, 0, -7)
Expired(task) ==
    /\ task.exists
    /\ task.status \in {"failed", "paused"}
    /\ task.updatedAt < clock - RetentionDays

\* CleanupExpiredTasks: every expired task leaves the map, its metadata file is removed
CleanupExpiredTasks ==
    LET t == store.tasks
        gone == {id \in TaskIDs : Expired(t[id])}
    IN  /\ store' = [store EXCEPT
                        !.tasks = [id \in TaskIDs |-> IF id \in gone THEN NoStoredTask ELSE t[id]],
                        !.last = [op |-> "cleanup", id |-> "", code |-> 200]]
        /\ disk' = [n \in MetaFiles |->
                       IF \E id \in gone : n = MetaFileOf[id] THEN NoFile ELSE disk[n]]
        /\ writes' = IF gone = {} THEN {} ELSE {"exclusive"}
        /\ UNCHANGED <<uploaderVars, retry, breaker, locks, clock, san, dest>>

\* a day passes
DayPasses ==
    /\ clock < MaxDay
    /\ clock' = clock + 1
    /\ UNCHANGED <<uploaderVars, retry, breaker, locks, store, disk, writes, san, dest>>

\* InitStorage after a restart: the map is what loadTasks reads from .metadata
InitStorage ==
    /\ store' = [tasks |-> loadTasks(disk),
                 last |-> [op |-> "restart", id |-> "", code |-> 200],
                 summary |-> NoSummary]
    /\ writes' = {"startup"}
    /\ UNCHANGED <<uploaderVars, retry, breaker, locks, disk, clock, san, dest>>

(***************************************************************************)
(* SanitizeFileID applied to two identifiers.                              *)
(***************************************************************************)
NoSan == [a |-> <<>>, b |-> <<>>, safeA |-> <<>>, safeB |-> <<>>]

SanitizePair(a, b) ==
    /\ san' = [a |-> a, b |-> b, safeA |-> SanitizeFileID(a), safeB |-> SanitizeFileID(b)]
    /\ UNCHANGED <<uploaderVars, retry, breaker, locks, storeVars, dest>>

\* nothing of the utilities is in use
UtilsIdle ==
    /\ breaker = NoBreaker
    /\ locks = NoLocks
    /\ store = NoStore
    /\ disk = NoDisk
    /\ writes = {}
    /\ clock = 0
    /\ san = NoSan
    /\ dest = NoDst

(***************************************************************************)
(* The CleanupTasks handler (part_003, handler/task.go): the status and    *)
(* older_than query parameters, the default clean-up when neither is       *)
(* given, and the loop over the main tasks otherwise.                      *)
(***************************************************************************)
RECURSIVE AtoiDigits(_, _)
\* the digits of s read from the left, n being the value so far
AtoiDigits(s, n) ==
    IF s = <<>> THEN n
    ELSE AtoiDigits(Tail(s), 10 * n + (CHOOSE d \in 1..10 : Digits[d] = Head(s)) - 1)

\* strconv.Atoi: an optional sign and at least one digit, anything else is an error
Atoi(s) ==
    LET signed == s # <<>> /\ Head(s) \in {"+", "-"}
        digits == IF signed THEN Tail(s) ELSE s
        isDigit(c) == \E d \in 1..10 : Digits[d] = c
    IN  IF digits = <<>> \/ \E k \in 1..Len(digits) : ~isDigit(digits[k])
        THEN [err |-> TRUE, n |-> 0]
        ELSE [err |-> FALSE,
              n |-> IF signed /\ Head(s) = "-" THEN 0 - AtoiDigits(digits, 0)
                    ELSE AtoiDigits(digits, 0)]

\* time.Time.Sub, in days
Sub(t, u) == t - u

\* daysDiff of CleanupTasks: int(task.UpdatedAt.Sub(task.UpdatedAt).Hours() / 24)
DaysDiff(task) == Sub(task.updatedAt, task.updatedAt)

\* shouldClean of CleanupTasks
ShouldClean(task, statusFilter, olderThanDays) ==
    \/ statusFilter # "" /\ task.status = statusFilter
    \/ olderThanDays > 0 /\ DaysDiff(task) >= olderThanDays

\* GetMainTasks: the tasks of the map that are no sub-tasks
GetMainTasks(t) == {id \in TaskIDs : t[id].exists /\ ~t[id].isSubTask}

\* TaskStorage.DeleteTask on the map t: a folder's sub-tasks, then the task
DeleteFrom(t, fileID) ==
    [DeleteSubTasks(t, IF t[fileID].taskType = "folder" THEN t[fileID].subTasks ELSE <<>>)
        EXCEPT ![fileID] = NoStoredTask]

RECURSIVE CleanEach(_, _, _, _, _)
\* the loop of CleanupTasks over the main tasks it read, in the order the map
\* yields: the map after the deletions and cleanedCount
CleanEach(t, mainTasks, order, statusFilter, olderThanDays) ==
    IF order = <<>> THEN [tasks |-> t, cleaned |-> 0]
    ELSE LET id == Head(order)
             hit == id \in GetMainTasks(mainTasks)
                    /\ ShouldClean(mainTasks[id], statusFilter, olderThanDays)
                    /\ t[id].exists
             rest == CleanEach(IF hit THEN DeleteFrom(t, id) ELSE t, mainTasks, Tail(order),
                               statusFilter, olderThanDays)
         IN  [rest EXCEPT !.cleaned = @ + (IF hit THEN 1 ELSE 0)]

\* CleanupTasks
CleanupTasks(statusFilter, olderThanStr, order) ==
    LET t == store.tasks
        parsed == Atoi(olderThanStr)
        olderThanDays == IF olderThanStr = <<>> THEN 0 ELSE parsed.n
        expired == {id \in TaskIDs : Expired(t[id])}
        cleaned == CleanEach(t, t, order, statusFilter, olderThanDays)
        t2 == IF statusFilter = "" /\ olderThanDays = 0
              THEN [id \in TaskIDs |-> IF id \in expired THEN NoStoredTask ELSE t[id]]
              ELSE cleaned.tasks
        gone == {id \in TaskIDs : t[id].exists /\ ~t2[id].exists}
    IN  /\ IF olderThanStr # <<>> /\ parsed.err
           THEN /\ store' = [store EXCEPT
                                !.last = [op |-> "cleanup_tasks", id |-> "", code |-> 400,
                                          statusFilter |-> statusFilter, olderThanDays |-> 0,
                                          cleanedCount |-> 0]]
                /\ UNCHANGED disk
                /\ writes' = {}
           ELSE /\ store' = [store EXCEPT
                                !.tasks = t2,
                                !.last = [op |-> "cleanup_tasks", id |-> "", code |-> 200,
                                          statusFilter |-> statusFilter,
                                          olderThanDays |-> olderThanDays,
                                          cleanedCount |->
                                              IF statusFilter = "" /\ olderThanDays = 0
                                              THEN 0 - 1 ELSE cleaned.cleaned]]
                /\ disk' = [n \in MetaFiles |->
                               IF \E id \in gone : n = MetaFileOf[id] THEN NoFile ELSE disk[n]]
                /\ writes' = IF gone = {} THEN {} ELSE {"exclusive"}
        /\ UNCHANGED <<uploaderVars, retry, breaker, locks, clock, san, dest>>

(***************************************************************************)
(* The environment: what clients send, and the specifications.             *)
(***************************************************************************)
ChunkMD5Inputs(data) == {<<>>, BytesMD5(data), WrongMD5}
ExpectedMD5Inputs == {<<>>, WrongMD5, TimeoutText}

\* no request is being handled
Quiescent == \A r \in Reqs : reqs[r].pc = "idle"

\* Requests for one file identifier, one after the other, with the detached
\* goroutines and DeleteTask at any moment, and no I/O fault.
Init ==
    /\ InitUploader(0)
    /\ retry = NoRetry
    /\ UtilsIdle

Next ==
    \/ \E index \in ChunkIndexes, data \in Payloads :
          \E chunkMD5 \in ChunkMD5Inputs(data) :
             Quiescent /\ UploadChunk("r1", FileF, index, data, chunkMD5)
    \/ UploadGetTask("r1")
    \/ \E totalChunks \in TotalChunksValues : UploadSaveTask("r1", totalChunks)
    \/ UploadAttempt("r1")
    \/ UploadCommit("r1")
    \/ UploadRecord("r1")
    \/ RetryWait("r1")
    \/ Return("r1")
    \/ \E filename \in FileNames, totalChunks \in TotalChunksValues,
          expectedMD5 \in ExpectedMD5Inputs :
          Quiescent /\ MergeChunks("r1", FileF, filename, totalChunks, expectedMD5)
    \/ MergeGate("r1")
    \/ MergeAcquire("r1")
    \/ MergeAttempt("r1")
    \/ MergeCommit("r1")
    \/ MergeVerify("r1")
    \/ MergeMark("r1")
    \/ MergeSave("r1")
    \/ CleanupChunks(FileF)
    \/ CleanupUploadDir(FileF)
    \/ DeleteTask(FileF)

Spec == Init /\ [][Next]_vars

\* Requests, one after the other, for FileF and for the identifier spelled like
\* FileF's sanitized form, whose uploads land in the directory a merge of FileF
\* reads; at most MaxFaults I/O faults.
InitAlias ==
    /\ InitUploader(MaxFaults)
    /\ retry = NoRetry
    /\ UtilsIdle

\* the payload a client sends for a chunk: the two identifiers' files differ at
\* every index, and each file's chunks differ from one another
AliasPayload(fileID, index) ==
    IF (fileID = FileF) = (index % 2 = 0) THEN PayloadB ELSE PayloadA

NextAlias ==
    \/ \E fileID \in FileIDs, index \in ChunkIndexes :
          Quiescent /\ UploadChunk("r1", fileID, index, AliasPayload(fileID, index), <<>>)
    \/ UploadGetTask("r1")
    \/ UploadSaveTask("r1", MaxChunks)
    \/ UploadAttempt("r1")
    \/ UploadCommit("r1")
    \/ UploadRecord("r1")
    \/ RetryWait("r1")
    \/ Return("r1")
    \/ \E filename \in FileNames :
          Quiescent /\ MergeChunks("r1", FileF, filename, MaxChunks, <<>>)
    \/ MergeGate("r1")
    \/ MergeAcquire("r1")
    \/ MergeAttempt("r1")
    \/ MergeCopy("r1")
    \/ MergeCommit("r1")
    \/ MergeVerify("r1")
    \/ MergeMark("r1")
    \/ MergeSave("r1")
    \/ CleanupChunks(FileF)
    \/ CleanupUploadDir(FileF)

SpecAlias == InitAlias /\ [][NextAlias]_vars

\* Concurrent requests for FileF, with the detached goroutines and DeleteTask at
\* any moment and no I/O fault.
InitConc ==
    /\ InitUploader(0)
    /\ retry = NoRetry
    /\ UtilsIdle

ConcIndexes == {0}
ConcTotals == {0, 1}

NextConc ==
    \/ \E index \in ConcIndexes : UploadChunk("r2", FileF, index, PayloadA, <<>>)
    \/ \E r \in Reqs : UploadGetTask(r)
    \/ \E r \in Reqs : UploadSaveTask(r, 1)
    \/ \E r \in Reqs : UploadAttempt(r)
    \/ \E r \in Reqs : UploadCommit(r)
    \/ \E r \in Reqs : UploadRecord(r)
    \/ \E r \in Reqs : Return(r)
    \/ \E r \in Reqs, filename \in FileNames, totalChunks \in ConcTotals :
          MergeChunks(r, FileF, filename, totalChunks, <<>>)
    \/ \E r \in Reqs : MergeGate(r)
    \/ \E r \in Reqs : MergeAcquire(r)
    \/ \E r \in Reqs : MergeAttempt(r)
    \/ \E r \in Reqs : MergeCommit(r)
    \/ \E r \in Reqs : MergeVerify(r)
    \/ \E r \in Reqs : MergeMark(r)
    \/ \E r \in Reqs : MergeSave(r)
    \/ CleanupChunks(FileF)
    \/ CleanupUploadDir(FileF)
    \/ DeleteTask(FileF)

SpecConc == InitConc /\ [][NextConc]_vars

\* RetryWithBackoff on its own, with every configuration and operation of the bounds
RetryConfigs ==
    [maxRetries : MaxRetriesValues, initialDelay : InitialDelays,
     maxDelay : MaxDelays, backoffFactor : BackoffFactors]

InitRetry ==
    /\ InitUploader(0)
    /\ retry = NoRetry
    /\ UtilsIdle

NextRetry ==
    \/ \E config \in RetryConfigs : RetryWithBackoff(config)
    \/ \E err \in OperationErrors \cup {NoError} : RetryOperation(err)
    \/ CtxCancel
    \/ RetryDelay
    \/ RetryReturn

SpecRetry == InitRetry /\ [][NextRetry]_vars

\* A circuit breaker of any configuration, called again and again by one caller
\* while time passes.
InitBreaker ==
    /\ InitUploader(0)
    /\ retry = NoRetry
    /\ \E maxFailures \in MaxFailuresValues, resetTimeout \in ResetTimeouts :
          breaker = NewCircuitBreaker(maxFailures, resetTimeout)
    /\ locks = NoLocks
    /\ store = NoStore
    /\ disk = NoDisk
    /\ writes = {}
    /\ clock = 0
    /\ san = NoSan
    /\ dest = NoDst

NextBreaker ==
    \/ Tick
    \/ Execute
    \/ \E err \in {NoError, PermanentFault} : ExecuteOperation(err)

SpecBreaker == InitBreaker /\ [][NextBreaker]_vars

\* Lock instances on one path, acquired and released in any order, with at most
\* MaxFaults failures to create the lock file.
InitLock ==
    /\ InitUploader(MaxFaults)
    /\ retry = NoRetry
    /\ UtilsIdle

NextLock ==
    \/ \E l \in LockInstances : LockAcquire(l)
    \/ \E l \in LockInstances : LockRelease(l)

SpecLock == InitLock /\ [][NextLock]_vars

\* A folder task with its sub-tasks: chunk results and merge failures of the
\* sub-tasks, and pause and resume requests for any task, in any order.
InitTasks ==
    /\ InitUploader(0)
    /\ retry = NoRetry
    /\ UtilsIdle

TaskOrders == {o \in [1..Cardinality(FolderTaskIDs) -> FolderTaskIDs] : \A i, j \in DOMAIN o : o[i] = o[j] => i = j}

NextTasks ==
    \/ CreateFolderTask(SubTaskIDs, MaxChunks)
    \/ \E fileID \in FolderTaskIDs \ {FolderID}, chunkIndex \in ChunkIndexes, status \in {"completed", "failed"} :
          StoreUpdateChunk(fileID, chunkIndex, status)
    \/ \E fileID \in FolderTaskIDs : MergeFailed(fileID)
    \/ \E fileID \in FolderTaskIDs : PauseTask(fileID)
    \/ \E fileID \in FolderTaskIDs : ResumeTask(fileID)
    \/ \E order \in TaskOrders : ResumeAllFailedTasks(order)

SpecTasks == InitTasks /\ [][NextTasks]_vars
\* SanitizeFileID on pairs of identifiers: variants of one name that differ in their
\* separators, and identifiers that agree on their first ReadableLimit characters.
SanitizeInputs ==
    {<<"a","/","b">>, <<"a","\\","b">>, <<"a","_","b">>, SepX, SepY,
     LongPrefix, LongPrefix \o <<"1">>, LongPrefix \o <<"2">>,
     LongPrefix \o <<"3","0","1","7","4">>, LongPrefix \o <<"7","3","8","4","6">>,
     FileF, FileG}

InitSanitize ==
    /\ InitUploader(0)
    /\ retry = NoRetry
    /\ UtilsIdle

NextSanitize == \E a, b \in SanitizeInputs : SanitizePair(a, b)

SpecSanitize == InitSanitize /\ [][NextSanitize]_vars

\* the files lists a client sends with a folder task
FilesInputs == {<<>>, <<"a">>, <<"b">>, <<"a", "b">>, <<"b", "a">>}

\* Folder tasks created through the handler and through the store's method itself,
\* paused and deleted again.
InitCreate ==
    /\ InitUploader(0)
    /\ retry = NoRetry
    /\ UtilsIdle

NextCreate ==
    \/ \E files \in FilesInputs, totalChunks \in TotalChunksValues :
          CreateFolderTask(files, totalChunks)
    \/ \E files \in FilesInputs, totalChunks \in TotalChunksValues :
          StorageCreateFolderTask(files, totalChunks)
    \/ \E fileID \in FolderTaskIDs : PauseTask(fileID)
    \/ \E fileID \in FolderTaskIDs : StoreDeleteTask(fileID)

SpecCreate == InitCreate /\ [][NextCreate]_vars

\* A folder task with its sub-tasks: created, its chunks uploaded or failing, its
\* merges failing, paused, summarised and deleted, in any order.
InitFolder ==
    /\ InitUploader(0)
    /\ retry = NoRetry
    /\ UtilsIdle

NextFolder ==
    \/ \E files \in {<<>>, SubTaskIDs} : CreateFolderTask(files, MaxChunks)
    \/ \E fileID \in FolderTaskIDs \ {FolderID}, chunkIndex \in ChunkIndexes, status \in {"completed", "failed"} :
          StoreUpdateChunk(fileID, chunkIndex, status)
    \/ \E fileID \in FolderTaskIDs : MergeFailed(fileID)
    \/ \E fileID \in FolderTaskIDs : MergeCompleted(fileID)
    \/ \E fileID \in FolderTaskIDs : PauseTask(fileID)
    \/ \E fileID \in FolderTaskIDs : StoreDeleteTask(fileID)
    \/ \E folderTaskID \in FolderTaskIDs : GetFolderTaskSummary(folderTaskID)

SpecFolder == InitFolder /\ [][NextFolder]_vars

\* Tasks that fail, are paused and resumed while days pass, and the clean-up of the
\* expired ones.
InitExpiry ==
    /\ InitUploader(0)
    /\ retry = NoRetry
    /\ UtilsIdle

NextExpiry ==
    \/ CreateFolderTask(SubTaskIDs, MaxChunks)
    \/ \E fileID \in FolderTaskIDs \ {FolderID} : MergeFailed(fileID)
    \/ \E fileID \in FolderTaskIDs \ {FolderID} : MergeCompleted(fileID)
    \/ \E fileID \in FolderTaskIDs : PauseTask(fileID)
    \/ DayPasses
    \/ CleanupExpiredTasks

SpecExpiry == InitExpiry /\ [][NextExpiry]_vars

\* a record written before folder tasks existed: file task "x" with its first chunk
\* stored, in a file that lacks the given JSON fields
OldRecord(lacks) ==
    [exists |-> TRUE, lacks |-> lacks,
     task |-> [NoStoredTask EXCEPT !.exists = TRUE, !.fileID = "x", !.status = "uploading",
                                   !.totalChunks = MaxChunks,
                                   !.chunks = [k \in ChunkIndexes |->
                                                  IF k = 0 /\ "chunks" \notin lacks
                                                  THEN [status |-> "completed"] ELSE NoChunk]]]

\* the .metadata directories the server may start on: empty, or one old record
StartDisks ==
    {NoDisk} \cup {[NoDisk EXCEPT ![MetaFileOf["x"]] = OldRecord(lacks)] :
                      lacks \in {{"task_type", "sub_tasks"}, {"task_type", "chunks", "sub_tasks"}}}

\* The store across restarts: NewTaskStorage loads .metadata; file tasks and a
\* folder task are created, their chunks recorded, their merges fail; the server
\* restarts at any point.
InitRestart ==
    /\ InitUploader(0)
    /\ retry = NoRetry
    /\ breaker = NoBreaker
    /\ locks = NoLocks
    /\ san = NoSan
    /\ dest = NoDst
    /\ clock = 0
    /\ disk \in StartDisks
    /\ store = [NoStore EXCEPT !.tasks = loadTasks(disk)]
    /\ writes = {"startup"}

NextRestart ==
    \/ \E fileID \in FileTaskIDs : NewFileTask(fileID, MaxChunks)
    \/ CreateFolderTask(SubTaskIDs, MaxChunks)
    \/ \E fileID \in FileTaskIDs \cup {SubTaskIDs[1]}, chunkIndex \in ChunkIndexes :
          StoreUpdateChunk(fileID, chunkIndex, "completed")
    \/ \E fileID \in FileTaskIDs \cup {SubTaskIDs[1]} : MergeFailed(fileID)
    \/ InitStorage

SpecRestart == InitRestart /\ [][NextRestart]_vars

\* Two concurrent uploads of the chunks of FileF, each request with its own index,
\* with no I/O fault and nothing else going on.
InitUploads ==
    /\ InitUploader(0)
    /\ retry = NoRetry
    /\ UtilsIdle

UploadIndex == ("r1" :> 0) @@ ("r2" :> 1)

NextUploads ==
    \/ \E r \in Reqs, data \in Payloads : UploadChunk(r, FileF, UploadIndex[r], data, <<>>)
    \/ \E r \in Reqs : UploadGetTask(r)
    \/ \E r \in Reqs : UploadSaveTask(r, MaxChunks)
    \/ \E r \in Reqs : UploadAttempt(r)
    \/ \E r \in Reqs : UploadCommit(r)
    \/ \E r \in Reqs : UploadRecord(r)
    \/ \E r \in Reqs : Return(r)

SpecUploads == InitUploads /\ [][NextUploads]_vars

\* Uploads of the chunks of FileF with every kind of chunk_md5 a client may send:
\* none, the right digest, a wrong digest, and a text that is no digest at all.
InitChunkMD5 ==
    /\ InitUploader(0)
    /\ retry = NoRetry
    /\ UtilsIdle

NextChunkMD5 ==
    \/ \E index \in ChunkIndexes, data \in Payloads :
          \E chunkMD5 \in ChunkMD5Inputs(data) \cup {TimeoutText} :
             UploadChunk("r1", FileF, index, data, chunkMD5)
    \/ UploadGetTask("r1")
    \/ UploadSaveTask("r1", MaxChunks)
    \/ UploadAttempt("r1")
    \/ UploadCommit("r1")
    \/ UploadRecord("r1")
    \/ RetryWait("r1")
    \/ Return("r1")

SpecChunkMD5 == InitChunkMD5 /\ [][NextChunkMD5]_vars

\* the elements a client puts into a relative_path, and the paths of up to
\* MaxDepth of them, with a name that holds two dots and a Windows-style path
PathElements == {<<"a">>, <<".">>, DotDot, <<>>}
RelativePaths ==
    {JoinElements(elements) :
        elements \in UNION {[1..n -> PathElements] : n \in 1..MaxDepth}}
    \cup {<<"a", ".", ".", "b">>, <<".", ".", "\\", "a">>}

\* the destinations of merge requests, whatever relative_path and filename they send
InitPath ==
    /\ InitUploader(0)
    /\ retry = NoRetry
    /\ UtilsIdle

NextPath ==
    \E relativePath \in RelativePaths, filename \in FileNames \cup {DotDot \o <<"/">> \o FileF} :
       MergeDestination(relativePath, filename)

SpecPath == InitPath /\ [][NextPath]_vars

\* A folder task and a plain file task that fail and are paused while days pass,
\* and clean-up requests with every combination of the two filters.
StatusFilters == {"", "failed", "paused"}
OlderThanInputs == {<<>>, <<"0">>, <<"2">>, <<"1", "0">>, <<"-", "1">>, <<"x">>}
MaxCleanupDay == 3
MainOrders == {<<FolderID, "x">>, <<"x", FolderID>>}

InitCleanup ==
    /\ InitUploader(0)
    /\ retry = NoRetry
    /\ UtilsIdle

NextCleanup ==
    \/ CreateFolderTask(SubTaskIDs, MaxChunks)
    \/ NewFileTask("x", MaxChunks)
    \/ \E fileID \in {"a", "x"} : MergeFailed(fileID)
    \/ PauseTask("x")
    \/ clock < MaxCleanupDay /\ DayPasses
    \/ \E statusFilter \in StatusFilters, olderThanStr \in OlderThanInputs, order \in MainOrders :
          CleanupTasks(statusFilter, olderThanStr, order)

SpecCleanup == InitCleanup /\ [][NextCleanup]_vars

\* One request uploads the only chunk of FileF or merges it while the other
\* pauses the task, with the detached goroutines and DeleteTask at any moment and
\* no I/O fault.
InitPause ==
    /\ InitUploader(0)
    /\ retry = NoRetry
    /\ UtilsIdle

NextPause ==
    \/ UploadChunk("r1", FileF, 0, PayloadA, <<>>)
    \/ UploadGetTask("r1")
    \/ UploadSaveTask("r1", 1)
    \/ UploadAttempt("r1")
    \/ UploadCommit("r1")
    \/ UploadRecord("r1")
    \/ \E filename \in FileNames : MergeChunks("r1", FileF, filename, 0, <<>>)
    \/ MergeGate("r1")
    \/ MergeAcquire("r1")
    \/ MergeAttempt("r1")
    \/ MergeCommit("r1")
    \/ MergeVerify("r1")
    \/ MergeMark("r1")
    \/ MergeSave("r1")
    \/ \E r \in Reqs : Return(r)
    \/ PauseGetTask("r2", FileF)
    \/ PauseCheck("r2")
    \/ PauseMark("r2")
    \/ PauseSave("r2")
    \/ CleanupChunks(FileF)
    \/ CleanupUploadDir(FileF)
    \/ DeleteTask(FileF)

SpecPause == InitPause /\ [][NextPause]_vars

(***************************************************************************)
(* The claims.                                                             *)
(***************************************************************************)
\* the part of MergeChunks between lock.Acquire() and the deferred lock.Release()
MergeInProgress(r) ==
    /\ reqs[r].op = "merge"
    /\ reqs[r].acquired
    /\ reqs[r].pc \in {"m_try", "m_copy", "m_commit", "m_verify", "m_wait", "m_mark", "m_save", "ret"}

\* uploadChunkWithAtomicOperation between NewAtomicWriter and the end of Commit
ChunkWriteInProgress(r) == reqs[r].op = "upload" /\ reqs[r].pc = "u_write"

\* the task a request's fileID names in the store
StoredTask(r) == heap[tasks[reqs[r].fileID]]

RECURSIVE ConcatPayloads(_, _)
\* the payloads sent for the indices 0..n-1 of fileID, in ascending order
ConcatPayloads(fileID, n) ==
    IF n = 0 THEN <<>> ELSE ConcatPayloads(fileID, n - 1) \o AliasPayload(fileID, n - 1)

\* C1: for one fileID at most one merge is between acquiring and releasing the
\* merge lock, whatever the goroutines and DeleteTask do meanwhile.
C1_OneMergeAtATime ==
    \A a, b \in Reqs :
        (a # b /\ MergeInProgress(a) /\ MergeInProgress(b)) => reqs[a].fileID # reqs[b].fileID

\* C2: with atomic operations the destination is never a truncated file: it is
\* absent or holds a whole concatenation; no step of a merge before the rename of
\* Commit changes it, and a failed copy or a failed Commit leaves no temp file.
C2_DestinationNeverPartial ==
    /\ [](\A n \in FileNames :
            merged[n].exists => merged[n].data = ConcatPayloads(FileG, MaxChunks))
    /\ [][\A r \in Reqs :
            /\ (reqs[r].op = "merge" /\ reqs[r].pc \in {"m_try", "m_copy", "m_wait"})
                  => merged' = merged
            /\ (reqs[r].op = "merge" /\ reqs[r].pc = "m_commit" /\ reqs'[r].pc # "m_verify")
                  => merged' = merged
            /\ (reqs[r].op = "merge" /\ reqs[r].pc \in {"m_copy", "m_commit"}
                  /\ reqs'[r].pc \in {"m_wait", "m_mark"})
                  => ~reqs'[r].tmp.exists]_vars

\* C2 witness: a merge failed in the copy loop after it had written a chunk to the
\* temp file; the temp file is gone and the destination does not exist.
C2_Witness ==
    \E r \in Reqs :
        /\ reqs[r].op = "merge" /\ reqs[r].pc = "m_mark" /\ reqs[r].why = "copy"
        /\ reqs[r].i >= 1
        /\ ~reqs[r].tmp.exists
        /\ ~merged[reqs[r].filename].exists

\* C3: a successful merge of fileID with totalChunks = N leaves at the destination
\* the payloads uploaded for fileID's chunks 0..N-1, concatenated in ascending order.
C3_MergedIsConcatenation ==
    \A r \in Reqs :
        (reqs[r].op = "merge" /\ reqs[r].pc = "ret" /\ reqs[r].code = 200)
            => merged[reqs[r].filename] = File(ConcatPayloads(reqs[r].fileID, reqs[r].total))

\* C4: a merge request that finds the number of completed chunks different from
\* the requested totalChunks answers 400 "incomplete" and has touched nothing: no
\* lock, no temp file, no destination, no task state.
C4_GateBlocksIncomplete ==
    [][\A r \in Reqs :
          (/\ reqs[r].pc = "m_gate"
           /\ reqs'[r].pc # "m_gate"
           /\ Cardinality(GetUploadedChunks(reqs[r].fileID)) # reqs[r].total)
          => (/\ reqs'[r].pc = "ret"
              /\ reqs'[r].code = 400
              /\ reqs'[r].why = "incomplete"
              /\ ~reqs'[r].acquired
              /\ ~reqs'[r].tmp.exists
              /\ UNCHANGED <<tasks, heap, chunkFiles, lockFiles, merged, cleanups>>)]_vars

\* C4 witness: a merge was refused as incomplete although chunks are completed
\* (their number is not the requested one).
C4_Witness ==
    \E r \in Reqs :
        /\ reqs[r].op = "merge" /\ reqs[r].pc = "ret" /\ reqs[r].why = "incomplete"
        /\ tasks[reqs[r].fileID] # NoTask
        /\ CompletedChunks(StoredTask(r)) # {}
        /\ lockFiles = {}

\* C5: once every chunk 0..N-1 of a task declared with N chunks is uploaded (recorded
\* completed, artifact stored), a merge with totalChunks = N succeeds and the
\* destination exists.
C5_MergeSucceedsOnceUploaded ==
    \A r \in Reqs :
        (/\ reqs[r].op = "merge" /\ reqs[r].pc = "ret"
         /\ reqs[r].total >= 1
         /\ tasks[reqs[r].fileID] # NoTask
         /\ StoredTask(r).totalChunks = reqs[r].total
         /\ CompletedChunks(StoredTask(r)) = 0..(reqs[r].total - 1)
         /\ \A k \in 0..(reqs[r].total - 1) : chunkFiles[reqs[r].fileID][ChunkName(k)].exists)
        => (reqs[r].code = 200 /\ merged[reqs[r].filename].exists)

\* C6: a merge whose expectedMD5 differs from the digest of the merged content
\* fails at once: it never waits for a retry, it ends with the integrity failure,
\* the destination does not exist and the task is not completed.
C6_IntegrityFailureNotRetried ==
    \A r \in Reqs :
        (reqs[r].op = "merge" /\ reqs[r].why = "integrity")
        => (/\ reqs[r].pc \in {"m_mark", "m_save", "ret"}
            /\ ~merged[reqs[r].filename].exists
            /\ reqs[r].pc = "ret" => (reqs[r].code = 500 /\ heap[reqs[r].task].status # "completed"))

\* C7: an upload that finds its bytes already stored, sent with the MD5 a first
\* upload of these bytes succeeds with (none, or their digest), answers success
\* without writing, and an upload that answers success records the chunk completed
\* without touching the stored artifact.
C7_ReuploadIsIdempotent ==
    [][\A r \in Reqs :
          /\ (/\ reqs[r].op = "upload" /\ reqs[r].pc = "u_try" /\ reqs'[r].pc # "u_try"
              /\ chunkFiles[reqs[r].fileID][ChunkName(reqs[r].index)] = File(reqs[r].data)
              /\ reqs[r].md5 \in {<<>>, BytesMD5(reqs[r].data)})
             => (/\ reqs'[r].pc = "u_record"
                 /\ reqs'[r].code = 200
                 /\ ~reqs'[r].tmp.exists
                 /\ chunkFiles' = chunkFiles)
          /\ (/\ reqs[r].op = "upload" /\ reqs[r].pc = "u_record" /\ reqs'[r].pc # "u_record"
              /\ reqs[r].code = 200 /\ tasks[reqs[r].fileID] # NoTask)
             => (/\ reqs'[r].pc = "ret"
                 /\ reqs'[r].code = 200
                 /\ heap'[tasks'[reqs[r].fileID]].chunks[reqs[r].index].status = "completed"
                 /\ chunkFiles' = chunkFiles)]_vars

\* C7 witness: a second upload of the same bytes has answered success; the artifact
\* holds the bytes and the chunk is recorded completed.
C7_Witness ==
    \E r \in Reqs :
        /\ reqs[r].op = "upload" /\ reqs[r].pc = "ret"
        /\ reqs[r].code = 200 /\ reqs[r].why = "stored"
        /\ chunkFiles[reqs[r].fileID][ChunkName(reqs[r].index)] = File(reqs[r].data)
        /\ tasks[reqs[r].fileID] # NoTask
        /\ StoredTask(r).chunks[reqs[r].index].status = "completed"

\* C8: a stored task's status is completed exactly when the number of its chunks
\* with status completed equals its totalChunks.
C8_CompletedIffAllChunks ==
    \A f \in FileIDs :
        tasks[f] # NoTask =>
            ((heap[tasks[f]].status = "completed")
                <=> (Cardinality(CompletedChunks(heap[tasks[f]])) = heap[tasks[f]].totalChunks))

\* C9: for one fileID a chunk artifact write of UploadChunk and a merge of
\* MergeChunks are never in progress at the same time.
C9_WriteExcludesMerge ==
    \A a, b \in Reqs :
        (ChunkWriteInProgress(a) /\ MergeInProgress(b)) => reqs[a].fileID # reqs[b].fileID

\* every error the operation returned so far is a retryable one
AllRetryable(errs) == \A k \in 1..Len(errs) : IsRetryableError(errs[k])

\* C10: while the operation fails with retryable errors and the context is not
\* cancelled, RetryWithBackoff goes on until the operation was called exactly
\* maxRetries + 1 times and then returns the last failure; after a success it
\* returns nil and the operation is not called again.
C10_RetryCount ==
    /\ retry.calls = Len(retry.errs)
    /\ (AllRetryable(retry.errs) /\ retry.result # "ctx")
          => /\ retry.calls <= retry.config.maxRetries + 1
             /\ (retry.pc = "done") <=> (retry.calls = retry.config.maxRetries + 1)
             /\ (retry.pc = "done") => (retry.result = "exhausted"
                                          /\ retry.lastErr = retry.errs[Len(retry.errs)])
    /\ \A k \in 1..Len(retry.errs) :
          retry.errs[k] = NoError => (k = Len(retry.errs) /\ retry.pc = "done" /\ retry.result = "nil")

\* C10 witness: every attempt failed with a retryable error and RetryWithBackoff,
\* configured with retries, has given up.
C10_Witness ==
    /\ retry.pc = "done" /\ retry.result = "exhausted"
    /\ retry.config.maxRetries = MaxRetriesBound
    /\ retry.calls = MaxRetriesBound + 1
    /\ AllRetryable(retry.errs)

\* the wait the backoff rule prescribes after failed attempt number i
BackoffRule(i, config) ==
    LET grown == config.initialDelay * Pow(config.backoffFactor, i)
    IN  IF grown < config.maxDelay THEN grown ELSE config.maxDelay

\* C11: the k-th wait of RetryWithBackoff (after failed attempt k - 1) is
\* min(maxDelay, initialDelay * backoffFactor^(k-1)); no wait exceeds maxDelay,
\* with backoffFactor >= 1 the waits never decrease, and there are at most
\* maxRetries waits: none follows the final attempt.
C11_BackoffDelays ==
    /\ \A k \in 1..Len(retry.delays) :
          /\ retry.delays[k] = BackoffRule(k - 1, retry.config)
          /\ retry.delays[k] <= retry.config.maxDelay
          /\ (retry.config.backoffFactor >= 1 /\ k > 1) => retry.delays[k - 1] <= retry.delays[k]
    /\ Len(retry.delays) <= retry.config.maxRetries
    /\ Len(retry.delays) <= retry.calls
    /\ (retry.pc = "done" /\ retry.result \in {"exhausted", "nil", "not_retryable"})
          => Len(retry.delays) = retry.calls - 1

\* C11 witness: retries are exhausted after waits that grew and were then limited
\* by maxDelay.
C11_Witness ==
    /\ retry.pc = "done" /\ retry.result = "exhausted"
    /\ Len(retry.delays) = MaxRetriesBound
    /\ retry.delays[1] < retry.delays[2]
    /\ retry.delays[2] = retry.config.maxDelay
    /\ retry.config.initialDelay * Pow(retry.config.backoffFactor, 1) > retry.config.maxDelay

\* C12: an error that matches no transient signature ends RetryWithBackoff at
\* once with the non-retryable result: it is the last call of the operation, all
\* calls before it failed with retryable errors, and no wait follows it.
C12_NonRetryableReturnsAtOnce ==
    \A k \in 1..Len(retry.errs) :
        retry.errs[k] = PermanentFault
            => /\ k = Len(retry.errs)
               /\ retry.pc = "done"
               /\ retry.result = "not_retryable"
               /\ retry.lastErr = PermanentFault
               /\ retry.calls = k
               /\ Len(retry.delays) = k - 1
               /\ \A j \in 1..(k - 1) : retry.errs[j] \in {TransientFault, TimeoutText}

\* C12 witness: after a retryable failure and a wait, the operation failed with a
\* non-matching error and RetryWithBackoff returned.
C12_Witness ==
    /\ retry.pc = "done" /\ retry.result = "not_retryable"
    /\ retry.calls = 2
    /\ retry.errs = <<TransientFault, PermanentFault>>
    /\ Len(retry.delays) = 1

\* C13: when the context is done while RetryWithBackoff waits between attempts, the
\* wait ends with the context's error, the operation is not called, and after that
\* result the operation is never called again.
C13_CancelEndsRetries ==
    /\ [][(retry.pc = "wait" /\ retry.ctx = "done" /\ retry' # retry)
            => (/\ retry'.pc = "done"
                /\ retry'.result = "ctx"
                /\ retry'.calls = retry.calls)]_vars
    /\ [][(retry.pc = "done" /\ retry.result = "ctx")
            => (retry' = retry \/ retry' = NoRetry)]_vars

\* C13 witness: RetryWithBackoff returned the context's error after one failed
\* attempt, with retries left.
C13_Witness ==
    /\ retry.pc = "done" /\ retry.result = "ctx"
    /\ retry.ctx = "done"
    /\ retry.calls = 1
    /\ retry.config.maxRetries = MaxRetriesBound
    /\ IsRetryableError(retry.lastErr)

\* the state changes the breaker's state machine allows
BreakerTransitions ==
    {<<"closed", "open">>, <<"open", "half-open">>,
     <<"half-open", "closed">>, <<"half-open", "open">>}

\* C14: the breaker is open exactly from the moment the consecutive failures reach
\* maxFailures; an open breaker rejects Execute without calling the operation
\* until resetTimeout has elapsed since the last failure, then becomes half-open
\* for one trial call; a successful trial closes it with the failure count 0, a
\* failed trial opens it again; the state changes in no other way.
C14_BreakerStateMachine ==
    /\ [](/\ breaker.state \in {"closed", "open", "half-open"}
          /\ breaker.state = "half-open" => breaker.pc = "running"
          /\ breaker.state = "open" => breaker.failures >= breaker.maxFailures
          /\ (breaker.state = "closed" /\ breaker.pc = "idle")
                => breaker.failures < breaker.maxFailures)
    /\ [][/\ breaker'.state # breaker.state
                => <<breaker.state, breaker'.state>> \in BreakerTransitions
          /\ (breaker.pc = "idle" /\ breaker.state = "open" /\ breaker'.now = breaker.now
                /\ breaker.now - breaker.lastFailTime <= breaker.resetTimeout)
                => (/\ breaker'.pc = "idle"
                    /\ breaker'.state = "open"
                    /\ breaker'.failures = breaker.failures
                    /\ breaker'.last \in {"rejected", breaker.last})
          /\ (breaker.pc = "idle" /\ breaker.state = "open" /\ breaker'.pc = "running")
                => (/\ breaker'.state = "half-open"
                    /\ breaker.now - breaker.lastFailTime > breaker.resetTimeout)
          /\ (breaker.state = "half-open" /\ breaker'.pc = "idle")
                => \/ breaker'.last = "nil" /\ breaker'.state = "closed" /\ breaker'.failures = 0
                   \/ breaker'.last = "err" /\ breaker'.state = "open"]_vars

\* C14 witness: a breaker that needed two failures to open was opened, waited for
\* resetTimeout, made a trial call and was closed by its success.
C14_Witness ==
    /\ breaker.maxFailures = 2
    /\ breaker.resetTimeout = 1
    /\ breaker.state = "closed" /\ breaker.pc = "idle" /\ breaker.last = "nil"
    /\ breaker.failures = 0
    /\ breaker.lastFailTime >= 1
    /\ breaker.now - breaker.lastFailTime > breaker.resetTimeout

\* C15: of the instances on one lock path at most one has acquired the lock, and
\* its lock file exists; Acquire on an existing lock file fails with the locked
\* error and leaves file and holder as they are; Release by an instance that does
\* not hold the lock changes no file.
C15_LockExclusive ==
    /\ [](/\ Cardinality({l \in LockInstances : locks[l].acquired}) <= 1
          /\ (\E l \in LockInstances : locks[l].acquired) <=> (LockPath \in lockFiles))
    /\ [][\A l \in LockInstances :
            /\ (~locks[l].acquired /\ LockPath \in lockFiles /\ locks'[l] # locks[l])
                  => (/\ locks'[l].last \in {"locked", "noop"}
                      /\ ~locks'[l].acquired
                      /\ lockFiles' = lockFiles
                      /\ \A m \in LockInstances \ {l} : locks'[m] = locks[m])
            /\ (/\ ~locks[l].acquired /\ locks'[l].last = "noop"
                /\ \A m \in LockInstances \ {l} : locks'[m] = locks[m])
                  => lockFiles' = lockFiles]_vars

\* C15 witness: one instance holds the lock, a second was refused as locked, and a
\* third released without holding; the lock file is still there.
C15_Witness ==
    /\ locks["l1"].acquired
    /\ locks["l2"].last = "locked"
    /\ locks["l3"].last = "noop"
    /\ LockPath \in lockFiles

\* the existing sub-tasks the folder task lists
ListedSubTasks(t) ==
    {id \in TaskIDs : \E k \in 1..Len(t[FolderID].subTasks) :
                          t[FolderID].subTasks[k] = id /\ t[id].exists}

\* C16: a pause of the folder task whose sub-tasks are all uploading is accepted
\* and leaves the folder task and every listed sub-task paused; a pause of a
\* completed task answers 400 and changes no task.
C16_PauseCascades ==
    [][\A id \in TaskIDs :
          (store'.last.op = "pause" /\ store'.last.id = id /\ store' # store)
          => LET t == store.tasks
                 u == store'.tasks
             IN  /\ (t[id].exists /\ t[id].status = "completed")
                       => (store'.last.code = 400 /\ u = t)
                 /\ (/\ id = FolderID /\ t[id].exists /\ t[id].status # "completed"
                     /\ ListedSubTasks(t) # {}
                     /\ \A c \in ListedSubTasks(t) : t[c].status = "uploading")
                       => (/\ store'.last.code = 200
                           /\ u[id].status = "paused"
                           /\ \A c \in ListedSubTasks(t) : u[c].status = "paused")]_vars

\* C16 witness: the folder task was paused and all its sub-tasks, which can only
\* have been uploading, are paused with it.
C16_Witness ==
    /\ store.last.op = "pause" /\ store.last.id = FolderID /\ store.last.code = 200
    /\ store.tasks[FolderID].status = "paused"
    /\ \A k \in 1..Len(SubTaskIDs) : store.tasks[SubTaskIDs[k]].status = "paused"

\* C17: an accepted resume of the paused or failed folder task sets it and every
\* paused or failed sub-task to uploading and adds exactly 1 to the retryCount of
\* each of them; the other sub-tasks keep status and retryCount; a resume of a
\* task that is not paused, failed or partial_failed answers 400 and changes no task.
C17_ResumeCountsOnce ==
    [][\A id \in TaskIDs :
          (store'.last.op = "resume" /\ store'.last.id = id /\ store' # store)
          => LET t == store.tasks
                 u == store'.tasks
             IN  /\ (t[id].exists /\ t[id].status \notin {"paused", "failed", "partial_failed"})
                       => (store'.last.code = 400 /\ u = t)
                 /\ (id = FolderID /\ t[id].exists /\ t[id].status \in {"paused", "failed"})
                       => (/\ store'.last.code = 200
                           /\ u[id].status = "uploading"
                           /\ u[id].retryCount = t[id].retryCount + 1
                           /\ \A c \in ListedSubTasks(t) :
                                 IF t[c].status \in {"paused", "failed"}
                                 THEN u[c].status = "uploading"
                                      /\ u[c].retryCount = t[c].retryCount + 1
                                 ELSE u[c].status = t[c].status
                                      /\ u[c].retryCount = t[c].retryCount)]_vars

\* C17 witness: the folder task was resumed a second time; one sub-task was resumed
\* with it both times and the other, completed, never.
C17_Witness ==
    /\ store.last.op = "resume" /\ store.last.id = FolderID /\ store.last.code = 200
    /\ store.tasks[FolderID].status = "uploading"
    /\ store.tasks[FolderID].retryCount = 2
    /\ store.tasks[SubTaskIDs[1]].status = "uploading"
    /\ store.tasks[SubTaskIDs[1]].retryCount = 2
    /\ store.tasks[SubTaskIDs[2]].status = "completed"
    /\ store.tasks[SubTaskIDs[2]].retryCount = 0

\* the tasks a resume step resumes: the task named (every resumable task, for
\* ResumeAllFailedTasks) and the paused or failed sub-tasks of a resumed folder task
ResumedTasks(t, last) ==
    LET named == {id \in TaskIDs : /\ t[id].exists
                                   /\ t[id].status \in {"paused", "failed", "partial_failed"}
                                   /\ last.op = "resume" => last.id = id}
    IN  named \cup {c \in ListedSubTasks(t) : FolderID \in named /\ t[c].status \in {"paused", "failed"}}

\* C18: after an accepted ResumeTask or ResumeAllFailedTasks no chunk of a resumed
\* task or resumed sub-task is failed: the failed chunks are pending and the
\* completed chunks are as they were.
C18_ResumeResetsFailedChunks ==
    [][((store'.last.op = "resume" /\ store'.last.code = 200) \/ store'.last.op = "resume_all")
          /\ store' # store
          => \A id \in ResumedTasks(store.tasks, store'.last) : \A k \in ChunkIndexes :
                LET before == store.tasks[id].chunks[k].status
                    after == store'.tasks[id].chunks[k].status
                IN  /\ after # "failed"
                    /\ before = "failed" => after = "pending"
                    /\ before = "completed" => after = "completed"]_vars

\* C18 witness: a sub-task with one completed and one failed chunk was resumed by
\* ResumeAllFailedTasks: the failed chunk is pending, the completed one is kept.
C18_Witness ==
    /\ store.last.op = "resume_all"
    /\ \E id \in TaskIDs :
          /\ store.tasks[id].status = "uploading"
          /\ store.tasks[id].retryCount = 1
          /\ store.tasks[id].chunks[0].status = "completed"
          /\ store.tasks[id].chunks[1].status = "pending"

(***************************************************************************)
(* C19, C20: what a merge leaves behind                                    *)
(***************************************************************************)
\* the positions of a merge request after it acquired the merge lock
MergeStarted == {"m_try", "m_copy", "m_commit", "m_verify", "m_wait", "m_mark", "m_save"}

\* request r itself takes the step (the task pointer may be renumbered by any step)
OwnMergeStep(r) ==
    /\ reqs[r].op = "merge"
    /\ reqs[r].pc \in MergeStarted
    /\ [reqs'[r] EXCEPT !.task = NoTask] # [reqs[r] EXCEPT !.task = NoTask]

\* C19: a MergeChunks that fails after starting the merge leaves the task with
\* status "failed" and schedules no clean-up: no step of a started merge removes or
\* changes a chunk artifact, a clean-up job is added only by a step that leaves the
\* request successful (code 200), a successful request stays successful until it
\* returns, and the step that ends a failed merge (code 500) leaves the stored task
\* with status "failed".
C19_FailedMergeKeepsChunks ==
    [][\A r \in Reqs :
          OwnMergeStep(r) =>
             /\ chunkFiles' = chunkFiles
             /\ cleanups' # cleanups => reqs'[r].code = 200
             /\ reqs[r].code = 200 => reqs'[r].code = 200
             /\ (reqs[r].pc = "m_save" /\ reqs[r].code = 500) =>
                   /\ reqs'[r].pc = "ret"
                   /\ tasks'[reqs[r].fileID] # NoTask
                   /\ heap'[tasks'[reqs[r].fileID]].status = "failed"
                   /\ cleanups' = cleanups]_vars

\* C19 witness: a merge whose copy loop or commit failed has returned 500, the task
\* is failed, every chunk file of the upload is still there and no clean-up job is
\* scheduled.
C19_Witness ==
    \E r \in Reqs :
       /\ reqs[r].op = "merge"
       /\ reqs[r].pc = "ret"
       /\ reqs[r].code = 500
       /\ reqs[r].why \in {"copy", "commit"}
       /\ tasks[reqs[r].fileID] # NoTask
       /\ heap[tasks[reqs[r].fileID]].status = "failed"
       /\ \A k \in 0..(MaxChunks - 1) :
             chunkFiles[SafeFileID[reqs[r].fileID]][ChunkName(k)].exists
       /\ cleanups = {}

\* the fileMD5 stored for fileID, empty when there is no task
StoredFileMD5(t, h, fileID) == IF t[fileID] = NoTask THEN <<>> ELSE h[t[fileID]].fileMD5

\* the step that ends a successful MergeChunks leaves the task completed with the
\* digest of the merged file
SuccessfulMergeRecorded ==
    \A r \in Reqs :
       (OwnMergeStep(r) /\ reqs[r].pc = "m_save" /\ reqs[r].code = 200) =>
          /\ tasks'[reqs[r].fileID] # NoTask
          /\ heap'[tasks'[reqs[r].fileID]].status = "completed"
          /\ merged'[reqs[r].filename].exists
          /\ heap'[tasks'[reqs[r].fileID]].fileMD5 = MD5Hex(merged'[reqs[r].filename].data)

\* a stored fileMD5 becomes non-empty only in the closing steps of a successful merge
FileMD5OnlyFromMerge ==
    \A fileID \in FileIDs :
       (StoredFileMD5(tasks, heap, fileID) = <<>> /\ StoredFileMD5(tasks', heap', fileID) # <<>>) =>
          \E r \in Reqs : /\ OwnMergeStep(r)
                          /\ reqs[r].fileID = fileID
                          /\ reqs[r].pc \in {"m_mark", "m_save"}
                          /\ reqs[r].code = 200

\* a task with a fileMD5 is completed
FileMD5ImpliesCompleted ==
    \A fileID \in FileIDs :
       StoredFileMD5(tasks, heap, fileID) # <<>> => heap[tasks[fileID]].status = "completed"

\* C20: after a successful MergeChunks the task is completed and its fileMD5 is the
\* digest of the merged file; a task's fileMD5 is non-empty only if a merge of the
\* task has succeeded; and in every reachable state a task with a non-empty fileMD5
\* has status "completed".
C20_FileMD5MeansCompleted ==
    /\ [][SuccessfulMergeRecorded /\ FileMD5OnlyFromMerge]_vars
    /\ []FileMD5ImpliesCompleted

(***************************************************************************)
(* C21..C26, C30: the task store                                           *)
(***************************************************************************)
\* the step is DeleteTask(id) of a task in the store, answered 200
DeletedStep(id) ==
    /\ store.tasks[id].exists
    /\ store'.last = [op |-> "delete", id |-> id, code |-> 200]

\* C21: after DeleteTask of a folder task neither the folder task nor any task its
\* subTasks lists is in the store, and every task outside the folder is as before;
\* DeleteTask of a file task removes that task alone and leaves every other task
\* as it was.
C21_DeleteRemovesFolderAndChildren ==
    [][\A id \in TaskIDs :
          DeletedStep(id) =>
             LET t == store.tasks
                 listed == IF t[id].taskType = "folder"
                           THEN {t[id].subTasks[k] : k \in 1..Len(t[id].subTasks)} ELSE {}
             IN  /\ ~store'.tasks[id].exists
                 /\ \A c \in listed : ~store'.tasks[c].exists
                 /\ \A o \in TaskIDs \ (listed \cup {id}) : store'.tasks[o] = t[o]
                 /\ \A o \in listed \cup {id} : ~disk'[MetaFileOf[o]].exists]_vars

\* C21 witness: DeleteTask of the folder task has returned 200; no task and no
\* metadata file is left.
C21_Witness ==
    /\ store.last = [op |-> "delete", id |-> FolderID, code |-> 200]
    /\ \A id \in TaskIDs : ~store.tasks[id].exists
    /\ \A n \in MetaFiles : ~disk[n].exists

\* C23 as stated: TaskStorage.CreateFolderTask, called with an empty files list,
\* fails and adds no task to the store.  (A call with an empty list is one that
\* leaves no folder task that lists a file.)
C23_StoreRejectsEmptyFiles ==
    [][(/\ store'.last.op = "storage_create"
        /\ store'.tasks[FolderID].subTasks = <<>>)
          => /\ store'.last.code # 200
             /\ store'.tasks = store.tasks]_vars

\* C23, amended: a CreateFolderTask request with an empty files list is answered 400 by
\* the handler and adds no task to the store and no file to .metadata; with a
\* non-empty list it is answered 200 and the folder task lists exactly the files.
C23_HandlerRejectsEmptyFiles ==
    [][store'.last.op = "create" =>
          IF store'.last.code = 400
          THEN store'.tasks = store.tasks /\ disk' = disk
          ELSE /\ store'.last.code = 200
               /\ store'.tasks[FolderID].exists
               /\ store'.tasks[FolderID].subTasks # <<>>
               /\ \A k \in 1..Len(store'.tasks[FolderID].subTasks) :
                     store'.tasks[store'.tasks[FolderID].subTasks[k]].exists]_vars

\* C23 witness: the handler has refused an empty files list; the store is empty.
C23_Witness ==
    /\ store.last = [op |-> "create", id |-> "", code |-> 400]
    /\ \A id \in TaskIDs : ~store.tasks[id].exists
    /\ \A n \in MetaFiles : ~disk[n].exists

\* the tasks a folder task lists
Listed(t, folder) == {t[folder].subTasks[k] : k \in 1..Len(t[folder].subTasks)}

\* every listed child is in the store with one of the statuses
AllListedIn(t, folder, statuses) ==
    \A c \in Listed(t, folder) : t[c].exists /\ t[c].status \in statuses

\* C24: GetFolderTaskSummary reports completed, and sets and persists the parent's
\* status completed, exactly when every listed child is completed; it reports failed
\* when a child is failed and every child is completed or failed; otherwise it
\* reports uploading; unless it reports completed, it leaves every stored task and
\* every metadata file as they were.
C24_SummaryStatus ==
    [][(store'.last = [op |-> "summary", id |-> FolderID, code |-> 200]) =>
          LET t == store.tasks
              allCompleted == AllListedIn(t, FolderID, {"completed"})
              allEnded == AllListedIn(t, FolderID, {"completed", "failed"})
          IN  /\ store'.summary.status = "completed" <=> allCompleted
              /\ allCompleted =>
                    /\ store'.tasks = [t EXCEPT ![FolderID].status = "completed"]
                    /\ disk'[MetaFileOf[FolderID]].task.status = "completed"
              /\ (~allCompleted /\ allEnded) => store'.summary.status = "failed"
              /\ ~allEnded => store'.summary.status = "uploading"
              /\ ~allCompleted => (store'.tasks = t /\ disk' = disk)]_vars

\* C24 witness: the summary has reported failed: one child is failed, the other
\* completed, and the parent's stored status is still uploading.
C24_Witness ==
    /\ store.last = [op |-> "summary", id |-> FolderID, code |-> 200]
    /\ store.summary.status = "failed"
    /\ store.summary.completedFiles = 1
    /\ store.summary.failedFiles = 1
    /\ store.tasks[FolderID].status = "uploading"

\* the children of a folder task that are in the store
Children(t, folder) == {c \in Listed(t, folder) : t[c].exists}

\* UpdateChunk has counted as many completed chunks as the task has in all
ReachedCompleted(task) ==
    Cardinality({k \in ChunkIndexes : task.chunks[k].status = "completed"}) = task.totalChunks

\* C25: when UpdateChunk makes a sub-task completed and every other child of its
\* parent is completed, the parent's stored status is completed; when a child is
\* not completed, UpdateChunk does not make the parent completed.
C25_ParentCompletedWithChildren ==
    [][\A c \in TaskIDs :
          (/\ store'.last = [op |-> "chunk", id |-> c, code |-> 200]
           /\ store.tasks[c].exists
           /\ store.tasks[c].isSubTask
           /\ store.tasks[FolderID].exists)
             => LET t2 == store'.tasks
                    allCompleted == \A o \in Children(t2, FolderID) : t2[o].status = "completed"
                IN  /\ (ReachedCompleted(t2[c]) /\ allCompleted)
                          => t2[FolderID].status = "completed"
                    /\ ~allCompleted
                          => (t2[FolderID].status = "completed"
                                 => store.tasks[FolderID].status = "completed")]_vars

\* C25 witness: the last chunk of the last sub-task has been recorded; both
\* sub-tasks and the folder task are completed.
C25_Witness ==
    /\ store.last.op = "chunk"
    /\ \A id \in FolderTaskIDs : store.tasks[id].exists /\ store.tasks[id].status = "completed"
    /\ \A k \in 1..Len(SubTaskIDs) :
          \A i \in ChunkIndexes : store.tasks[SubTaskIDs[k]].chunks[i].status = "completed"

\* C26: after UploadChunk has recorded a chunk that does not complete the task, the
\* task's status is uploading.
C26_UploadLeavesUploading ==
    \A id \in TaskIDs :
       (/\ store.last = [op |-> "chunk", id |-> id, code |-> 200]
        /\ store.tasks[id].exists
        /\ store.tasks[id].status # "completed")
          => store.tasks[id].status = "uploading"

\* C30: every write to the task map or to a stored task's fields is made under the
\* exclusive side of the store's mutex.
C30_WritesUnderExclusiveLock == writes \subseteq {"exclusive"}

(***************************************************************************)
(* C27: SanitizeFileID                                                     *)
(***************************************************************************)
Separators == {"/", "\\", "_"}

\* a and b have one length and differ only where both have a separator
DifferInSeparators(a, b) ==
    /\ Len(a) = Len(b)
    /\ \A k \in 1..Len(a) : a[k] = b[k] \/ (a[k] \in Separators /\ b[k] \in Separators)

\* a and b are longer than the readable part and agree on it
DifferBeyondLimit(a, b) ==
    /\ Len(a) >= ReadableLimit
    /\ Len(b) >= ReadableLimit
    /\ SubSeq(a, 1, ReadableLimit) = SubSeq(b, 1, ReadableLimit)

\* C27: two distinct identifiers that differ only in their separators, or only
\* beyond the first 50 characters, have distinct sanitized names.
C27_SanitizeInjective ==
    (/\ san.a # san.b
     /\ DifferInSeparators(san.a, san.b) \/ DifferBeyondLimit(san.a, san.b))
       => san.safeA # san.safeB

(***************************************************************************)
(* C22: CleanupExpiredTasks                                                *)
(***************************************************************************)
\* C22: CleanupExpiredTasks removes from the store exactly the tasks that are failed
\* or paused and were last updated more than 7 days ago, with their metadata
\* files; every other task stays in the store unchanged.
C22_CleanupRemovesExpired ==
    [][(store'.last.op = "cleanup" /\ clock' = clock) =>
          \A id \in TaskIDs :
             LET task == store.tasks[id]
                 old == task.updatedAt + RetentionDays < clock
             IN  IF task.exists /\ task.status \in {"failed", "paused"} /\ old
                 THEN ~store'.tasks[id].exists /\ ~disk'[MetaFileOf[id]].exists
                 ELSE store'.tasks[id] = task]_vars

\* C22 witness: a clean-up has removed a failed sub-task that was 8 days old and
\* left a task paused 7 days ago and a completed one of the same age as the
\* removed one.
C22_Witness ==
    /\ store.last.op = "cleanup"
    /\ clock = MaxDay - 1
    /\ ~store.tasks["a"].exists
    /\ store.tasks["b"].exists /\ store.tasks["b"].status = "completed"
    /\ store.tasks["b"].updatedAt = 0
    /\ store.tasks[FolderID].exists /\ store.tasks[FolderID].status = "paused"
    /\ store.tasks[FolderID].updatedAt = clock - RetentionDays

(***************************************************************************)
(* C28: restart                                                            *)
(***************************************************************************)
\* the step is a restart after which the store holds exactly the tasks ids it
\* held before, each with the status, totalChunks and chunk map it had, and no
\* task without a type
RestartRestores(ids) ==
    store'.last.op = "restart" =>
       \A id \in ids :
          /\ store'.tasks[id].exists = store.tasks[id].exists
          /\ store.tasks[id].exists =>
                /\ store'.tasks[id].status = store.tasks[id].status
                /\ store'.tasks[id].totalChunks = store.tasks[id].totalChunks
                /\ store'.tasks[id].chunks = store.tasks[id].chunks
                /\ store'.tasks[id].taskType # ""

\* C28: after a restart the store holds exactly the tasks that were persisted, each
\* with its persisted status, totalChunks and chunk map, and a record that lacks
\* taskType is a file task.
C28_RestartRestoresTasks == [][RestartRestores(TaskIDs)]_vars

(***************************************************************************)
(* C29: concurrent uploads of one file                                     *)
(***************************************************************************)
\* no request is being handled
AllReturned == \A r \in Reqs : reqs[r].pc = "idle"

\* the chunk indices whose upload was answered with success: with no I/O fault and
\* no delete, those whose chunk file is stored
Uploaded(fileID) == {k \in ChunkIndexes : chunkFiles[fileID][ChunkName(k)].exists}

\* C29: once all concurrent uploads of distinct indices of a file have returned,
\* every index whose upload succeeded is recorded completed in the stored task.
C29_NoCompletedChunkLost ==
    AllReturned =>
       \A k \in Uploaded(FileF) :
          /\ tasks[FileF] # NoTask
          /\ heap[tasks[FileF]].chunks[k].status = "completed"

(***************************************************************************)
(* C31: what a successful merge has merged                                 *)
(***************************************************************************)
\* the merge of request r has succeeded: mergeChunksWithIntegrityCheck returned nil
MergeSucceeded(r) ==
    /\ reqs[r].op = "merge"
    /\ reqs[r].pc = "m_mark"
    /\ reqs[r].code = 200

\* C31: when a merge requested with totalChunks = N has succeeded, the chunks the
\* task records as completed are exactly 0..N-1 and N is the task's totalChunks.
C31_MergedExactlyTheTask ==
    \A r \in Reqs :
       MergeSucceeded(r) =>
          /\ CompletedChunks(heap[reqs[r].task]) = 0..(reqs[r].total - 1)
          /\ heap[reqs[r].task].totalChunks = reqs[r].total

(***************************************************************************)
(* C32, C38: the folder task and its children                              *)
(***************************************************************************)
\* C32: a folder task whose stored status is completed lists at least one child,
\* and every listed child is in the store with status completed.
C32_CompletedFolderHasCompletedChildren ==
    (store.tasks[FolderID].exists /\ store.tasks[FolderID].status = "completed")
       => /\ store.tasks[FolderID].subTasks # <<>>
          /\ AllListedIn(store.tasks, FolderID, {"completed"})

(***************************************************************************)
(* C33: a chunk whose MD5 does not match                                   *)
(***************************************************************************)
\* request r uploads bytes whose digest is not the chunk_md5 it sent, and the
\* stored artifact of its index does not match what it sent either
Mismatched(r) ==
    /\ reqs[r].op = "upload"
    /\ ChunkMD5Mismatch(reqs[r].data, reqs[r].md5)
    /\ ~ChunkAlreadyStored(chunkFiles[reqs[r].fileID][ChunkName(reqs[r].index)],
                           reqs[r].data, reqs[r].md5)

\* C33: an upload whose chunk_md5 does not match fails at its first attempt, with no
\* retry; no chunk file is created or replaced; the chunk is recorded failed and
\* the other chunks of the task keep their status.
C33_ChunkMD5MismatchFailsOnce ==
    [][\A r \in Reqs :
          (Mismatched(r) /\ reqs'[r].pc # reqs[r].pc) =>
             /\ chunkFiles' = chunkFiles
             /\ reqs[r].pc = "u_try" =>
                   /\ reqs[r].attempt = 0
                   /\ reqs'[r].pc = "u_record"
                   /\ reqs'[r].code = 500
                   /\ ~reqs'[r].tmp.exists
             /\ (reqs[r].pc = "u_record" /\ tasks[reqs[r].fileID] # NoTask) =>
                   heap'[tasks[reqs[r].fileID]].chunks =
                      [heap[tasks[reqs[r].fileID]].chunks EXCEPT ![reqs[r].index] = [status |-> "failed"]]]_vars

(***************************************************************************)
(* C34: the destination of a merge                                         *)
(***************************************************************************)
\* the cleaned relative path has a parent-directory element
Traverses(relativePath) == \E k \in DOMAIN Split(Clean(relativePath)) : Split(Clean(relativePath))[k] = DotDot

\* the path names a file below MergedDir
InsideMergedDir(path) ==
    LET elements == Split(path)
    IN  /\ Len(elements) >= 2
        /\ Head(elements) = MergedDir
        /\ \A k \in 2..Len(elements) : elements[k] \notin {<<>>, <<".">>, DotDot}

\* C34 as stated: a merge whose relative_path, cleaned, has a parent-directory
\* element is refused with a validation error that is not retried, before a
\* destination is chosen; the destination of every accepted relative_path lies
\* inside MergedDir.
C34_RelativePathStaysInside ==
    dest.relativePath # <<>> =>
       /\ Traverses(dest.relativePath) =>
             (dest.err = InvalidRelativePath /\ ~dest.retried /\ dest.dstPath = <<>>)
       /\ dest.err = NoError => InsideMergedDir(dest.dstPath)

\* C34, amended: a merge whose relative_path, cleaned, has a parent-directory element
\* is refused with a validation error that is not retried, before a destination is
\* chosen; the destination of every accepted relative_path is MergedDir itself or
\* lies inside it.
C34_RelativePathNeverLeaves ==
    dest.relativePath # <<>> =>
       /\ Traverses(dest.relativePath) =>
             (dest.err = InvalidRelativePath /\ ~dest.retried /\ dest.dstPath = <<>>)
       /\ dest.err = NoError => (dest.dstPath = MergedDir \/ InsideMergedDir(dest.dstPath))

\* C34 witness: the relative_path a/../.. , which cleans to "..", has been refused.
C34_Witness ==
    /\ dest.relativePath = <<"a", "/", ".", ".", "/", ".", ".">>
    /\ Clean(dest.relativePath) = DotDot
    /\ dest.err = InvalidRelativePath
    /\ ~dest.retried

\* the main tasks a clean-up with the two filters has to delete
Matches(task, statusFilter, olderThanDays) ==
    \/ statusFilter # "" /\ task.status = statusFilter
    \/ olderThanDays > 0 /\ task.updatedAt <= clock - olderThanDays

\* C35: a CleanupTasks request with older_than = d > 0 deletes every main task
\* whose updatedAt is at least d days in the past, one with a status filter
\* deletes every main task with that status, and the main tasks that match
\* neither filter given stay in the store as they were.
C35_CleanupTasksFilters ==
    [][(/\ store'.last.op = "cleanup_tasks" /\ store'.last.code = 200
        /\ store' # store /\ clock' = clock
        /\ (store'.last.statusFilter # "" \/ store'.last.olderThanDays > 0))
          => \A id \in TaskIDs :
                (store.tasks[id].exists /\ ~store.tasks[id].isSubTask)
                   => IF Matches(store.tasks[id], store'.last.statusFilter,
                                 store'.last.olderThanDays)
                      THEN ~store'.tasks[id].exists
                      ELSE store'.tasks[id] = store.tasks[id]]_vars

\* C35 with a status filter alone: every main task with that status is deleted and
\* every other main task stays.
C35_StatusFilterAlone ==
    [][(/\ store'.last.op = "cleanup_tasks" /\ store'.last.code = 200
        /\ store' # store /\ clock' = clock
        /\ store'.last.statusFilter # "" /\ store'.last.olderThanDays <= 0)
          => \A id \in TaskIDs :
                (store.tasks[id].exists /\ ~store.tasks[id].isSubTask)
                   => IF store.tasks[id].status = store'.last.statusFilter
                      THEN ~store'.tasks[id].exists
                      ELSE store'.tasks[id] = store.tasks[id]]_vars

\* request r is a PauseTask that writes "paused" in this step
Pauses(r) == reqs[r].op = "pause" /\ reqs[r].pc = "p_mark" /\ reqs'[r].pc = "p_save"

\* C36: a task whose status is completed never becomes paused, however PauseTask
\* interleaves with the upload or merge that completes the task: the write of
\* "paused" never lands on a task that is completed with all its chunks
\* completed.
C36_CompletedNeverPaused ==
    [][\A r \in Reqs :
          Pauses(r) => ~(/\ heap[reqs[r].task].status = "completed"
                         /\ CompletedChunks(heap[reqs[r].task])
                               = 0..(heap[reqs[r].task].totalChunks - 1))]_vars

\* request r is an UploadChunk that creates the task of fileID in this step
Creates(r, fileID) ==
    reqs[r].op = "upload" /\ reqs[r].pc = "u_save" /\ reqs[r].fileID = fileID
        /\ reqs'[r].pc # "u_save"

\* C37: a task that is absent from the store, as it is after DeleteTask, stays
\* absent until an UploadChunk creates it: no PauseTask or MergeChunks that holds
\* the deleted task puts it back with SaveTask.
C37_DeletedStaysDeleted ==
    [][\A fileID \in FileIDs :
          (tasks[fileID] = NoTask /\ tasks'[fileID] # NoTask)
             => \E r \in Reqs : Creates(r, fileID)]_vars

\* the stored folder tasks
Folders(t) == {id \in TaskIDs : t[id].exists /\ t[id].taskType = "folder"}

\* C38: the folder hierarchy is referentially intact in every reachable state: each
\* fileID a stored folder task lists in subTasks is in the store, and each stored
\* sub-task names as its parent a stored folder task that lists it.
C38_FolderHierarchyIntact ==
    /\ \A folder \in Folders(store.tasks) : \A c \in Listed(store.tasks, folder) :
          store.tasks[c].exists
    /\ \A id \in TaskIDs :
          (store.tasks[id].exists /\ store.tasks[id].isSubTask)
             => \E folder \in Folders(store.tasks) :
                   /\ store.tasks[id].parentTaskID = folder
                   /\ id \in Listed(store.tasks, folder)

\* the lock file of the request r
LockPathOf(r) ==
    IF reqs[r].op = "upload" THEN UploadLockPath(reqs[r].fileID)
    ELSE MergeLockPath(reqs[r].fileID)

\* request r has acquired its lock and has not returned
HoldsLock(r) == reqs[r].acquired /\ reqs[r].pc # "idle"

\* C39: when an UploadChunk or MergeChunks request that acquired its lock returns,
\* its lock file no longer exists, and while a request holds its lock nothing but
\* its own return removes the lock file.
C39_LocksReleasedByHolderOnly ==
    [][\A r \in Reqs :
          /\ (HoldsLock(r) /\ reqs[r].pc = "ret" /\ reqs'[r].pc = "idle")
                => LockPathOf(r) \notin lockFiles'
          /\ (HoldsLock(r) /\ LockPathOf(r) \in lockFiles /\ reqs'[r].pc # "idle")
                => LockPathOf(r) \in lockFiles']_vars

\* C39, the release alone: the lock file of a request that acquired its lock is
\* gone once the request has returned.
C39_ReleasedAtReturn ==
    [][\A r \in Reqs :
          (HoldsLock(r) /\ reqs[r].pc = "ret" /\ reqs'[r].pc = "idle")
             => LockPathOf(r) \notin lockFiles']_vars

\* request r is inside uploadChunkWithAtomicOperation or
\* mergeChunksWithIntegrityCheck with its AtomicWriter open
WriterOpen(r) == reqs[r].pc \in {"u_write", "m_copy", "m_commit"}

\* C40: once uploadChunkWithAtomicOperation or mergeChunksWithIntegrityCheck has
\* returned, with success or with any error, no temp file of its AtomicWriter is
\* on disk: outside the span in which the writer is open a request has no temp
\* file.
C40_NoTempFileAfterReturn ==
    \A r \in Reqs : ~WriterOpen(r) => ~reqs[r].tmp.exists

\* C40 witness: an upload whose write failed for good has returned from
\* uploadChunkWithAtomicOperation, and its temp file is gone.
C40_Witness ==
    \E r \in Reqs :
        /\ reqs[r].op = "upload" /\ reqs[r].pc = "u_record"
        /\ reqs[r].why = "write" /\ reqs[r].code = 500
        /\ ~reqs[r].tmp.exists
====
